---- MODULE Spec2Model ----
(***************************************************************************)
(* Model of the DWARF textual-dump interpreter of disassemble-function.py: *)
(* dodwarf reads the DIE dump (read_die_chain), locates the compile unit,  *)
(* collects named PC intervals (collect_ranged_items, get_pc_range,        *)
(* collect_die_nametag, postprocess_rangerefs) and annotates a disassembly *)
(* listing.  With it, the filter loop of normalize-dwarf-objdump.py        *)
(* (read_die, perform_filt, emit_die) and the unit selection of            *)
(* dump-compunit-dwarf.py (parse_args, perform).  Each script has its own  *)
(* variables, initial states and next-state relation.  Lines of text are   *)
(* TLA+ strings; the regular expressions of the scripts are patterns       *)
(* matched as re.match matches them.                                       *)
(***************************************************************************)
EXTENDS Integers, Sequences, FiniteSets, TLC

(***************************************************************************)
(* Text primitives (python str).                                           *)
(***************************************************************************)

\* s[m..n] (1-based, inclusive), empty when the range is empty or outside s
Sub(s, m, n) ==
  LET lo == IF m < 1 THEN 1 ELSE m
      hi == IF n > Len(s) THEN Len(s) ELSE n
  IN IF lo > hi THEN "" ELSE SubSeq(s, lo, hi)

\* s[i] as a one-character string (1-based), empty outside s
Char(s, i) == IF i < 1 \/ i > Len(s) THEN "" ELSE SubSeq(s, i, i)

\* whether the literal lit stands in s at position i
LitAt(s, i, lit) ==
  /\ i >= 1
  /\ i + Len(lit) - 1 <= Len(s)
  /\ SubSeq(s, i, i + Len(lit) - 1) = lit

Digits == {"0", "1", "2", "3", "4", "5", "6", "7", "8", "9"}

LowerHex == Digits \cup {"a", "b", "c", "d", "e", "f"}

\* membership of a character in a class of the regular expressions:
\* "s" is \s (the blanks of the modelled alphabet), "S" is \S, "d" is \d,
\* "h" is [0-9a-f], "x" is a base-16 digit of int(.., 16), "." is .
InClass(cls, c) ==
  CASE cls = "s" -> c \in {" ", "\t"}
    [] cls = "S" -> c # "" /\ c \notin {" ", "\t"}
    [] cls = "d" -> c \in Digits
    [] cls = "h" -> c \in LowerHex
    [] cls = "x" -> c \in LowerHex \cup {"A", "B", "C", "D", "E", "F"}
    [] cls = "." -> c # ""

\* how many characters of s from position i on are in the class
RECURSIVE Run(_, _, _)
Run(cls, s, i) ==
  IF i <= Len(s) /\ InClass(cls, Char(s, i)) THEN 1 + Run(cls, s, i + 1) ELSE 0

\* how many characters of s from position i back are blanks
RECURSIVE BlanksBack(_, _)
BlanksBack(s, i) ==
  IF i >= 1 /\ InClass("s", Char(s, i)) THEN 1 + BlanksBack(s, i - 1) ELSE 0

\* python str.strip()
Strip(s) == Sub(s, 1 + Run("s", s, 1), Len(s) - BlanksBack(s, Len(s)))

HexDigitVal(c) ==
  CASE c = "0" -> 0 [] c = "1" -> 1 [] c = "2" -> 2 [] c = "3" -> 3
    [] c = "4" -> 4 [] c = "5" -> 5 [] c = "6" -> 6 [] c = "7" -> 7
    [] c = "8" -> 8 [] c = "9" -> 9
    [] c \in {"a", "A"} -> 10 [] c \in {"b", "B"} -> 11
    [] c \in {"c", "C"} -> 12 [] c \in {"d", "D"} -> 13
    [] c \in {"e", "E"} -> 14 [] c \in {"f", "F"} -> 15

\* the digits of s after an optional 0x / 0X prefix, as int(s, 16) reads them
HexBody(s) ==
  IF LitAt(s, 1, "0x") \/ LitAt(s, 1, "0X") THEN Sub(s, 3, Len(s)) ELSE s

\* whether the digits are base 16, at least one
AllHex(body) == Len(body) >= 1 /\ Run("x", body, 1) = Len(body)

\* whether int(s, 16) succeeds; a sign and "_" are outside the modelled
\* alphabet of address and offset tokens
HexOk(s) == AllHex(HexBody(s))

RECURSIVE HexVal(_)
HexVal(s) ==
  IF Len(s) = 0 THEN 0
  ELSE 16 * HexVal(Sub(s, 1, Len(s) - 1)) + HexDigitVal(Char(s, Len(s)))

\* int(s, 16) for a token with HexOk(s)
PyInt16(s) == HexVal(HexBody(s))

HexDigitChar(d) == Char("0123456789abcdef", d + 1)

\* "%x" % n
RECURSIVE ToHex(_)
ToHex(n) ==
  IF n < 0 THEN "-" \o ToHex(0 - n)
  ELSE IF n < 16 THEN HexDigitChar(n)
  ELSE ToHex(n \div 16) \o HexDigitChar(n % 16)

\* "%d" % n
RECURSIVE ToDec(_)
ToDec(n) ==
  IF n < 0 THEN "-" \o ToDec(0 - n)
  ELSE IF n < 10 THEN HexDigitChar(n)
  ELSE ToDec(n \div 10) \o HexDigitChar(n % 10)

\* sep.join(parts)
RECURSIVE Join(_, _)
Join(parts, sep) ==
  IF Len(parts) = 0 THEN ""
  ELSE IF Len(parts) = 1 THEN parts[1]
  ELSE parts[1] \o sep \o Join(Tail(parts), sep)

(***************************************************************************)
(* Regular expressions (python re): a pattern is a sequence of elements,   *)
(* matched from the start of the line with greedy quantifiers and          *)
(* backtracking, as re.match does.                                         *)
(***************************************************************************)

\* one character of a class: quantifier "1" once, "*" any number, "+" at least one
Cls(cls, q) == [k |-> "cls", c |-> cls, q |-> q, g |-> 0]

\* a literal text
Str(text) == [k |-> "str", c |-> text, q |-> "1", g |-> 0]

\* ( and ) of capture group g
Open(g) == [k |-> "open", c |-> "", q |-> "1", g |-> g]

Close(g) == [k |-> "close", c |-> "", q |-> "1", g |-> g]

\* $
End == [k |-> "end", c |-> "", q |-> "1", g |-> 0]

NoMatch == [ok |-> FALSE, caps |-> <<>>]

\* M: the match of pat[j..] against s from position i, caps the groups so far
\* Try: the same for the class element pat[j] taking cnt characters, then fewer
RECURSIVE M(_, _, _, _, _), Try(_, _, _, _, _, _)
M(pat, j, s, i, caps) ==
  IF j > Len(pat) THEN [ok |-> TRUE, caps |-> caps]
  ELSE CASE pat[j].k = "end" ->
              IF i = Len(s) + 1 THEN M(pat, j + 1, s, i, caps) ELSE NoMatch
         [] pat[j].k = "open" ->
              M(pat, j + 1, s, i, Append(caps, <<i, i - 1>>))
         [] pat[j].k = "close" ->
              M(pat, j + 1, s, i, [caps EXCEPT ![pat[j].g][2] = i - 1])
         [] pat[j].k = "str" ->
              IF LitAt(s, i, pat[j].c)
              THEN M(pat, j + 1, s, i + Len(pat[j].c), caps) ELSE NoMatch
         [] pat[j].k = "cls" ->
              IF pat[j].q = "1"
              THEN IF InClass(pat[j].c, Char(s, i))
                   THEN M(pat, j + 1, s, i + 1, caps) ELSE NoMatch
              ELSE Try(pat, j, s, i, caps, Run(pat[j].c, s, i))

Try(pat, j, s, i, caps, cnt) ==
  IF cnt < (IF pat[j].q = "+" THEN 1 ELSE 0) THEN NoMatch
  ELSE LET r == M(pat, j + 1, s, i + cnt, caps)
       IN IF r.ok THEN r ELSE Try(pat, j, s, i, caps, cnt - 1)

\* pat.match(s)
Match(pat, s) == M(pat, 1, s, 1, <<>>)

\* m.group(g), for a match m of s
Group(s, m, g) == Sub(s, m.caps[g][1], m.caps[g][2])

\* Begin-DIE preamble
\* ^\s*\<\d+\>\<(\S+)\>\:\s*Abbrev\sNumber\:\s+(\d+)\s+\((\S+)\)\s*$
bdiere ==
  <<Cls("s", "*"), Str("<"), Cls("d", "+"), Str("><"), Open(1), Cls("S", "+"),
    Close(1), Str(">:"), Cls("s", "*"), Str("Abbrev"), Cls("s", "1"),
    Str("Number:"), Cls("s", "+"), Open(2), Cls("d", "+"), Close(2),
    Cls("s", "+"), Str("("), Open(3), Cls("S", "+"), Close(3), Str(")"),
    Cls("s", "*"), End>>

\* Within-DIE regex
\* ^(\s*)\<(\S+)\>(\s+)(DW_AT_\S+)(\s*)\:(.*)$
indiere ==
  <<Open(1), Cls("s", "*"), Close(1), Str("<"), Open(2), Cls("S", "+"), Close(2),
    Str(">"), Open(3), Cls("s", "+"), Close(3), Open(4), Str("DW_AT_"),
    Cls("S", "+"), Close(4), Open(5), Cls("s", "*"), Close(5), Str(":"),
    Open(6), Cls(".", "*"), Close(6), End>>

\* ^\s*0x(\S+)\s*$
hexvalre ==
  <<Cls("s", "*"), Str("0x"), Open(1), Cls("S", "+"), Close(1), Cls("s", "*"), End>>

\* ^\s*\<0x(\S+)\>\s*$
hexval2re ==
  <<Cls("s", "*"), Str("<0x"), Open(1), Cls("S", "+"), Close(1), Str(">"),
    Cls("s", "*"), End>>

\* ASM re
\* (^\s*)(\S+)(\:\s*\S.*)$
asmre ==
  <<Open(1), Cls("s", "*"), Close(1), Open(2), Cls("S", "+"), Close(2), Open(3),
    Str(":"), Cls("s", "*"), Cls("S", "1"), Cls(".", "*"), Close(3), End>>

\* Singleton entry
\* ^\s*([0-9a-f]+)\s+([0-9a-f]+)\s+([0-9a-f]+)\s*$
singre ==
  <<Cls("s", "*"), Open(1), Cls("h", "+"), Close(1), Cls("s", "+"), Open(2),
    Cls("h", "+"), Close(2), Cls("s", "+"), Open(3), Cls("h", "+"), Close(3),
    Cls("s", "*"), End>>

\* End of list entry
\* ^\s*([0-9a-f]+)\s+\<End of list\>\s*$
endre ==
  <<Cls("s", "*"), Open(1), Cls("h", "+"), Close(1), Cls("s", "+"),
    Str("<End of list>"), Cls("s", "*"), End>>

\* Base address entry
\* ^\s*([0-9a-f]+)\s+([0-9a-f]+)\s+([0-9a-f]+)\s+\(base address\)\s*$
basere ==
  <<Cls("s", "*"), Open(1), Cls("h", "+"), Close(1), Cls("s", "+"), Open(2),
    Cls("h", "+"), Close(2), Cls("s", "+"), Open(3), Cls("h", "+"), Close(3),
    Cls("s", "+"), Str("(base address)"), Cls("s", "*"), End>>

\* normalize-dwarf-objdump.py: Begin-DIE preamble
\* ^(\s*)\<(\d+)\>\<(\S+)\>\:(.*)$
bdiere_norm ==
  <<Open(1), Cls("s", "*"), Close(1), Str("<"), Open(2), Cls("d", "+"), Close(2),
    Str("><"), Open(3), Cls("S", "+"), Close(3), Str(">:"), Open(4),
    Cls(".", "*"), Close(4), End>>

\* ^\s*Abbrev Number\:\s+0\s*$
bdiezre ==
  <<Cls("s", "*"), Str("Abbrev Number:"), Cls("s", "+"), Str("0"), Cls("s", "*"), End>>

\* ^\s*Abbrev Number\:\s+\d+\s+\(DW_TAG_(\S+)\)\s*$
bdiebodre ==
  <<Cls("s", "*"), Str("Abbrev Number:"), Cls("s", "+"), Cls("d", "+"),
    Cls("s", "+"), Str("(DW_TAG_"), Open(1), Cls("S", "+"), Close(1), Str(")"),
    Cls("s", "*"), End>>

\* ^(\s*)\<(\S+)\>(\s+)(Unknown\s+AT\s+value)(\s*)\:(.*)$
indie2re ==
  <<Open(1), Cls("s", "*"), Close(1), Str("<"), Open(2), Cls("S", "+"), Close(2),
    Str(">"), Open(3), Cls("s", "+"), Close(3), Open(4), Str("Unknown"),
    Cls("s", "+"), Str("AT"), Cls("s", "+"), Str("value"), Close(4), Open(5),
    Cls("s", "*"), Close(5), Str(":"), Open(6), Cls(".", "*"), Close(6), End>>

\* For grabbing dwarf ref from attr value
\* ^\s*\<\S+\>\s+DW_AT_\S+\s*\:\s*\<0x(\S+)\>.*$
absore ==
  <<Cls("s", "*"), Str("<"), Cls("S", "+"), Str(">"), Cls("s", "+"), Str("DW_AT_"),
    Cls("S", "+"), Cls("s", "*"), Str(":"), Cls("s", "*"), Str("<0x"), Open(1),
    Cls("S", "+"), Close(1), Str(">"), Cls(".", "*"), End>>

\* Attr value dwarf offset
\* ^(.*)\<0x(\S+)\>(.*)$
attrdwoffre ==
  <<Open(1), Cls(".", "*"), Close(1), Str("<0x"), Open(2), Cls("S", "+"), Close(2),
    Str(">"), Open(3), Cls(".", "*"), Close(3), End>>

\* dump-compunit-dwarf.py
\* ^\s*Compilation Unit \@ offset 0x(\S+)\:\s*$
cre ==
  <<Cls("s", "*"), Str("Compilation Unit @ offset 0x"), Open(1), Cls("S", "+"),
    Close(1), Str(":"), Cls("s", "*"), End>>

\* ^\s+\<\S+\>\s+DW_AT_name\s+\:\s+(\S+)\s*$
namere ==
  <<Cls("s", "+"), Str("<"), Cls("S", "+"), Str(">"), Cls("s", "+"),
    Str("DW_AT_name"), Cls("s", "+"), Str(":"), Cls("s", "+"), Open(1),
    Cls("S", "+"), Close(1), Cls("s", "*"), End>>

\* perform, step 2: ^.+\(DW_TAG_compile_unit\).*
cure == <<Cls(".", "+"), Str("(DW_TAG_compile_unit)"), Cls(".", "*")>>

\* script_utils.get_git_status
\* bs: ^\#\#\s+(\S+)\.\.(\S+)\s.*$ and ^\#\#\s+(\S+)\s*$
\* rs: ^\s*$    rb: ^\S+\.~\d+~$
\* r1: ^(\S+)\s+(\S+)$    r2: ^(\S+)\s+(\S+) \-\> (\S+)$
gitre ==
  [bs |-> << <<Str("##"), Cls("s", "+"), Open(1), Cls("S", "+"), Close(1),
               Str(".."), Open(2), Cls("S", "+"), Close(2), Cls("s", "1"),
               Cls(".", "*"), End>>,
             <<Str("##"), Cls("s", "+"), Open(1), Cls("S", "+"), Close(1),
               Cls("s", "*"), End>> >>,
   rs |-> <<Cls("s", "*"), End>>,
   rb |-> <<Cls("S", "+"), Str(".~"), Cls("d", "+"), Str("~"), End>>,
   r1 |-> <<Open(1), Cls("S", "+"), Close(1), Cls("s", "+"), Open(2),
            Cls("S", "+"), Close(2), End>>,
   r2 |-> <<Open(1), Cls("S", "+"), Close(1), Cls("s", "+"), Open(2),
            Cls("S", "+"), Close(2), Str(" -> "), Open(3), Cls("S", "+"),
            Close(3), End>>]

\* parse_args, the argument of -x: ^0x(\S+)$
xargre == <<Str("0x"), Open(1), Cls("S", "+"), Close(1), End>>

(***************************************************************************)
(* Python dicts, kept as sequences of [key, val] in insertion order.       *)
(***************************************************************************)

DictHas(d, k) == \E i \in 1..Len(d) : d[i].key = k

DictGet(d, k) == d[CHOOSE i \in 1..Len(d) : d[i].key = k].val

\* d[k] = v : an existing key keeps its place
DictSet(d, k, v) ==
  IF DictHas(d, k)
  THEN [i \in 1..Len(d) |-> IF d[i].key = k THEN [key |-> k, val |-> v] ELSE d[i]]
  ELSE Append(d, [key |-> k, val |-> v])

\* d[k].append(x) on a defaultdict(list)
DictAppend(d, k, x) ==
  DictSet(d, k, IF DictHas(d, k) THEN Append(DictGet(d, k), x) ELSE <<x>>)

\* curdieoff before the first DIE start line (python None)
NoneKey == -2

(***************************************************************************)
(* expand_die, grab_hex_attr, collect_die_nametag, get_pc_range.           *)
(***************************************************************************)

\* the loop of expand_die over lines[1:2] only: the first attribute line
ExpandAttrsFirst(lines, k, attrs) ==
  IF k > Len(lines) \/ k > 2 THEN [ok |-> TRUE, attrs |-> attrs]
  ELSE LET m2 == Match(indiere, lines[k])
       IN IF ~m2.ok THEN [ok |-> FALSE, attrs |-> attrs]
          ELSE [ok |-> TRUE,
                attrs |-> DictSet(attrs, Group(lines[k], m2, 4),
                                  Strip(Group(lines[k], m2, 6)))]

\* the loop of expand_die over lines[1:] : attrs[attr] = val.strip()
RECURSIVE ExpandAttrs(_, _, _)
ExpandAttrs(lines, k, attrs) ==
  IF k > Len(lines) THEN [ok |-> TRUE, attrs |-> attrs]
  ELSE LET m2 == Match(indiere, lines[k])
       IN IF ~m2.ok THEN [ok |-> FALSE, attrs |-> attrs]
          ELSE ExpandAttrs(lines, k + 1,
                           DictSet(attrs, Group(lines[k], m2, 4),
                                   Strip(Group(lines[k], m2, 6))))

\* expand_die(lines): ok is FALSE where the script calls u.error (exit)
expand_die(lines) ==
  LET m1 == Match(bdiere, lines[1])
      rest == ExpandAttrs(lines, 2, <<>>)
  IN IF ~m1.ok THEN [ok |-> FALSE, abbrev |-> "0", tag |-> "undefined", attrs |-> <<>>]
     ELSE [ok |-> rest.ok, abbrev |-> Group(lines[1], m1, 2),
           tag |-> Group(lines[1], m1, 3), attrs |-> rest.attrs]

\* the digits grab_hex_attr hands to int(.., 16), "" when it returns -1 first
GrabDigits(attrs, attrname) ==
  IF ~DictHas(attrs, attrname) THEN ""
  ELSE LET hexval == DictGet(attrs, attrname)
           m1 == Match(hexvalre, hexval)
           m2 == Match(hexval2re, hexval)
       IN IF m1.ok THEN Group(hexval, m1, 1)
          ELSE IF m2.ok THEN Group(hexval, m2, 1) ELSE ""

\* grab_hex_attr raises ValueError: int(.., 16) of digits that are not base 16
GrabRaises(attrs, attrname) ==
  LET digits == GrabDigits(attrs, attrname)
  IN digits # "" /\ ~HexOk(digits)

\* grab_hex_attr reading the 0x.. form only, not the <0x..> form
grab_hex_attr_plain(attrs, attrname) ==
  IF ~DictHas(attrs, attrname) THEN -1
  ELSE LET hexval == DictGet(attrs, attrname)
           m1 == Match(hexvalre, hexval)
       IN IF m1.ok THEN PyInt16(Group(hexval, m1, 1)) ELSE -1

\* grab_hex_attr(attrs, attrname) when it does not raise
grab_hex_attr(attrs, attrname) ==
  LET digits == GrabDigits(attrs, attrname)
  IN IF digits = "" THEN -1 ELSE PyInt16(digits)

\* collect_die_nametag does not return: ValueError out of grab_hex_attr, or
\* u.error out of expand_die of the referenced DIE
NametagFails(attrs, off, tag, dies) ==
  /\ ~DictHas(attrs, "DW_AT_name")
  /\ \/ GrabRaises(attrs, "DW_AT_abstract_origin")
     \/ LET absoff == grab_hex_attr(attrs, "DW_AT_abstract_origin")
        IN DictHas(dies, absoff) /\ ~expand_die(DictGet(dies, absoff)).ok

\* collect_die_nametag looking at the abstract origin before the DIE's own name
collect_die_nametag_origin_first(attrs, off, tag, dies) ==
  LET absoff == grab_hex_attr(attrs, "DW_AT_abstract_origin")
      aattrs == expand_die(DictGet(dies, absoff)).attrs
  IN IF DictHas(dies, absoff) /\ DictHas(aattrs, "DW_AT_name")
     THEN DictGet(aattrs, "DW_AT_name")
     ELSE IF DictHas(attrs, "DW_AT_name") THEN DictGet(attrs, "DW_AT_name")
     ELSE "unknown@" \o tag \o "@" \o ToHex(off)

\* collect_die_nametag printing the offset of the placeholder with %d
collect_die_nametag_dec(attrs, off, tag, dies) ==
  LET absoff == grab_hex_attr(attrs, "DW_AT_abstract_origin")
      aattrs == expand_die(DictGet(dies, absoff)).attrs
  IN IF DictHas(attrs, "DW_AT_name") THEN DictGet(attrs, "DW_AT_name")
     ELSE IF DictHas(dies, absoff) /\ DictHas(aattrs, "DW_AT_name")
          THEN DictGet(aattrs, "DW_AT_name")
     ELSE "unknown@" \o tag \o "@" \o ToDec(off)

\* collect_die_nametag(attrs, off, tag, dies)
collect_die_nametag(attrs, off, tag, dies) ==
  LET absoff == grab_hex_attr(attrs, "DW_AT_abstract_origin")
      aattrs == expand_die(DictGet(dies, absoff)).attrs
  IN IF DictHas(attrs, "DW_AT_name") THEN DictGet(attrs, "DW_AT_name")
     ELSE IF DictHas(dies, absoff) /\ DictHas(aattrs, "DW_AT_name")
          THEN DictGet(aattrs, "DW_AT_name")
     ELSE "unknown@" \o tag \o "@" \o ToHex(off)

\* the DIEs read from the store by a resolver that follows the abstract
\* origins of unnamed DIEs from one to the next, keeping no record of the
\* DIEs it has seen; left after limit reads
RECURSIVE ChainLookups(_, _, _)
ChainLookups(attrs, dies, limit) ==
  LET absoff == grab_hex_attr(attrs, "DW_AT_abstract_origin")
  IN IF limit = 0 \/ DictHas(attrs, "DW_AT_name") \/ ~DictHas(dies, absoff) THEN 0
     ELSE 1 + ChainLookups(expand_die(DictGet(dies, absoff)).attrs, dies, limit - 1)

NametagLookupsChain(attrs, off, tag, dies) ==
  ChainLookups(attrs, dies, Len(dies) + 1)

\* the DIEs collect_die_nametag(attrs, off, tag, dies) reads from the store:
\* dies[absoff] once, for an unnamed DIE whose abstract origin is in the store
NametagLookups(attrs, off, tag, dies) ==
  IF DictHas(attrs, "DW_AT_name") THEN 0
  ELSE IF DictHas(dies, grab_hex_attr(attrs, "DW_AT_abstract_origin")) THEN 1
  ELSE 0

\* the store after d[k]: a defaultdict(list) gives an absent key an empty list
GetItem(d, k) == IF DictHas(d, k) THEN d ELSE DictSet(d, k, <<>>)

\* the store after collect_die_nametag reading dies[absoff] without the
\* test "absoff in dies"
NametagStoreUnguarded(attrs, off, tag, dies) ==
  IF DictHas(attrs, "DW_AT_name") THEN dies
  ELSE GetItem(dies, grab_hex_attr(attrs, "DW_AT_abstract_origin"))

\* the store after collect_die_nametag(attrs, off, tag, dies): dies[absoff]
\* is read for an absoff in dies only
NametagStore(attrs, off, tag, dies) ==
  LET absoff == grab_hex_attr(attrs, "DW_AT_abstract_origin")
  IN IF DictHas(attrs, "DW_AT_name") THEN dies
     ELSE IF DictHas(dies, absoff) THEN GetItem(dies, absoff)
     ELSE dies

\* the u.verbose(1, ..) lines of collect_die_nametag(attrs, off, tag, dies)
NametagLines(attrs, off, tag, dies) ==
  IF DictHas(attrs, "DW_AT_name") THEN <<>>
  ELSE <<"absoff for " \o ToHex(off) \o "/" \o tag \o " is "
         \o ToHex(grab_hex_attr(attrs, "DW_AT_abstract_origin"))>>
       \o (IF DictHas(dies, grab_hex_attr(attrs, "DW_AT_abstract_origin"))
           THEN <<"found abs DIE @ "
                  \o ToHex(grab_hex_attr(attrs, "DW_AT_abstract_origin"))>>
           ELSE <<>>)

\* get_pc_range(attrs) = (lodec, hidec)
get_pc_range(attrs) ==
  <<grab_hex_attr(attrs, "DW_AT_low_pc"), grab_hex_attr(attrs, "DW_AT_high_pc")>>

PcRangeRaises(attrs) ==
  GrabRaises(attrs, "DW_AT_low_pc") \/ GrabRaises(attrs, "DW_AT_high_pc")

(***************************************************************************)
(* State of one run of dodwarf(asmlines, lm).                              *)
(***************************************************************************)
VARIABLES
  flag_debug,     \* script_utils: verbosity level, one more per -d
  flag_dwarf_cu,  \* -W argument
  lines1,         \* output of objdump --dwarf=info --dwarf-depth=1
  given,          \* history: the DIEs and other lines lines2 was printed from
  lines2,         \* output of objdump --dwarf-start=N --dwarf=info
  rnglines,       \* output of objdump --dwarf=Ranges
  asmlines,       \* the disassembly handed to dodwarf
  pc,             \* the loop dodwarf is in
  idx,            \* position of that loop (1-based index of the next item)
  dies,           \* read_die_chain: DIE offset -> lines of the DIE
  curdieoff,      \* read_die_chain: offset of the DIE being read
  cu_offset,      \* dodwarf: "--dwarf-start=N", "" for None
  results,        \* collect_ranged_items: the list being built
  origin,         \* history: the offset of the DIE each entry of results is from
  lookups,        \* history: the DIEs read from the store by each name resolution
  rlrefs,         \* collect_ranged_items: range-list offset -> [(attrs, off, tag)]
  refranges,      \* postprocess_rangerefs: offset -> [(st, en)]
  inrange,        \* postprocess_rangerefs
  crange,         \* postprocess_rangerefs
  off,            \* postprocess_rangerefs: off of the last line read
  unmatched,      \* postprocess_rangerefs
  ranged_items,   \* dodwarf: what collect_ranged_items returned
  suffixes,       \* dodwarf: suffixes of the line annotated last
  out,            \* lines written to stdout
  log,            \* stderr: the warnings and the diagnostics of a resolution miss
  failure         \* "" or how the run ended early

(***************************************************************************)
(* State of one run of normalize-dwarf-objdump.py: its flags, the lines of *)
(* stdin, the line buffer, read_die and perform_filt.                      *)
(***************************************************************************)
VARIABLES
  flag_compunits,          \* the names given with -u
  flag_annotate_abstract,  \* FALSE after -A
  flag_normalize,          \* FALSE after -N
  flag_strip_offsets,      \* TRUE after -S
  flag_strip_pcinfo,       \* TRUE after -P
  inf,                     \* the lines of the input, without their "\n"
  infpos,                  \* the line inf.readline() returns next
  linebuf,                 \* the line given back with unread_line
  linebuffered,
  readlog,                 \* history: the calls of read_line, in order
  dielines,                \* read_die: lines
  indie,                   \* read_die: indie
  diepos,                  \* history: where in inf the DIE of dielines starts
  outf,                    \* the lines written to the output
  outsrc,                  \* history: where in inf each line of outf is from
  emitted,                 \* history: diepos of the DIEs passed to emit_die
  diestart,                \* perform_filt: hex string => new offset
  diename,                 \* perform_filt: rel DIE offset => name
  filt_origin,             \* perform_filt: origin ("" for None)
  filtered,                \* perform_filt: output is filtered off
  untracked_dwrefs,
  fpc,                     \* "idle", "read" (in read_die), "die", "done", "exit"
  ffailure                 \* how the run ended early

filtflags == <<flag_compunits, flag_annotate_abstract, flag_normalize,
               flag_strip_offsets, flag_strip_pcinfo, inf>>

filtvars == <<filtflags, infpos, linebuf, linebuffered, readlog, dielines, indie,
              diepos, outf, outsrc, emitted, diestart, diename, filt_origin, filtered,
              untracked_dwrefs, fpc, ffailure>>

(***************************************************************************)
(* State of one run of dump-compunit-dwarf.py without -L: the command      *)
(* line, parse_args, the loop of perform over the unit dump, and the loop   *)
(* of step 2 over the lines of the selected dump.                          *)
(***************************************************************************)
VARIABLES
  dc_argv,              \* the arguments of -x and -n, "" for an option not given
  flag_offset_to_find,  \* NoneKey for None
  flag_name_to_find,    \* "" for None
  dc_lines,             \* output of objdump --dwarf=info --dwarf-depth=..
  dc_idx,               \* the line the loop is at
  dc_units,             \* perform: units
  dc_lo,                \* perform: lo
  dc_hi,                \* perform: hi
  dc_binoff,            \* perform: binoff
  dc_maxoff,            \* perform: maxoff
  dc_selectoff,         \* perform: selectoff
  dc_found,             \* perform: found
  dc_cmd,               \* the objdump command of step 2, "" before
  dc_err,               \* the lines written to stderr
  dc_pc,                \* "idle", "args", "scan", "dump", "done", "exit"
  dc_failure,           \* how the run ended early
  dc_full,              \* what objdump --dwarf=info prints for the load module
  dc_quiet,             \* objdump leaves the unit headers out of a dump that
                        \* starts at a DIE offset other than 0
  dc_read,              \* step 2: the lines read from the pipe so far
  dc_ncomps,            \* step 2: ncomps
  dc_out                \* step 2: the lines written to stdout

dc_inputs == <<dc_argv, dc_lines, dc_full, dc_quiet>>

\* the state of step 2
dc_step2 == <<dc_read, dc_ncomps, dc_out>>

dcvars == <<dc_inputs, flag_offset_to_find, flag_name_to_find, dc_idx, dc_units,
            dc_lo, dc_hi, dc_binoff, dc_maxoff, dc_selectoff, dc_found, dc_cmd,
            dc_err, dc_pc, dc_failure, dc_step2>>

(***************************************************************************)
(* State of one call of script_utils.docmdwithtimeout(cmd, timeout_duration): *)
(* the main thread, the command it waits for, the kernel's alarm timer and  *)
(* the SIGALRM the interpreter has received and not yet handled.            *)
(***************************************************************************)
VARIABLES
  to_cmd,               \* the command: [rc, secs], exit status and running time
  timeout_duration,     \* the argument, in seconds
  to_pc,                \* "idle", "start", "alarm", "try", "cmd", "finally",
                        \* "restore", "return", "returned", "raised"
  to_handler,           \* the SIGALRM handler: "prev" or "handler"
  to_alarm,             \* seconds until the kernel sends SIGALRM, 0 for no alarm
  to_tripped,           \* SIGALRM received, its python handler not yet run
  to_fired,             \* handler has run
  to_ran,               \* seconds the command has run
  to_clock,             \* seconds since the call
  to_result             \* result, NoneKey before it is assigned

to_inputs == <<to_cmd, timeout_duration>>

tovars == <<to_inputs, to_pc, to_handler, to_alarm, to_tripped, to_fired, to_ran,
            to_clock, to_result>>

(***************************************************************************)
(* State of one call of script_utils.get_git_status().                     *)
(***************************************************************************)
VARIABLES
  gs_lines,             \* lines: the output of git status -sb
  gs_idx,               \* the line the loop is at
  gs_branch,            \* branch, "" for None
  gs_modifications,     \* modifications
  gs_untracked,         \* untracked
  gs_renames,           \* renames
  gs_rev_renames,       \* rev_renames
  gs_pc,                \* "idle", "branch", "loop", "returned", "exit"
  gs_ret                \* what the call returned: the tuple, <<>> for None

gs_tables == <<gs_modifications, gs_untracked, gs_renames, gs_rev_renames>>

gsvars == <<gs_lines, gs_idx, gs_branch, gs_tables, gs_pc, gs_ret>>

(***************************************************************************)
(* State of one StringTable object (StringTable.py) and of its last call.  *)
(***************************************************************************)
VARIABLES
  stringtab,            \* self.stringtab; the ID of stringtab[k] is k - 1
  stringdict,           \* self.stringdict
  st_call,              \* the last call: [op, s, ret], op "" before any
  st_before,            \* stringtab and stringdict before the last call
  st_pc                 \* "idle" or "ready"

stvars == <<stringtab, stringdict, st_call, st_before, st_pc>>

\* the state of the functions modelled on their own
utilvars == <<tovars, gsvars, stvars>>

\* what dodwarf does not write: its inputs and the state of the other scripts
inputs == <<flag_debug, flag_dwarf_cu, lines1, given, lines2, rnglines, asmlines,
            filtvars, dcvars, utilvars>>

\* the state of dodwarf
dwarfvars == <<flag_dwarf_cu, lines1, given, lines2, rnglines, asmlines, pc, idx,
               dies, curdieoff, cu_offset, results, origin, lookups, rlrefs, refranges,
               inrange, crange, off, unmatched, ranged_items, suffixes, out, log,
               failure>>

rangestate == <<refranges, inrange, crange, off, unmatched>>

vars == <<flag_debug, dwarfvars, filtvars, dcvars, utilvars>>

\* seconds a call of docmdwithtimeout is followed for
MaxSeconds == 3

\* status lines after the branch line of git status -sb
MaxStatus == 2

\* entries of a StringTable
MaxStrings == 4

\* the load module the scripts are called for
LoadModule == "a.out"

\* what u.verbose(level, msgs) adds to stderr at verbosity debug; the runs
\* have verbosity 0 or 1, and log holds the lines of levels up to 1
verbose(debug, level, msgs) == IF level <= debug THEN msgs ELSE <<>>

\* the "ranged item" lines dodwarf writes at verbosity 1 before its output loop
RangedItemLines(items) ==
  [k \in 1..Len(items) |->
     "ranged item: " \o items[k][1] \o " [" \o ToHex(items[k][2]) \o ","
     \o ToHex(items[k][3]) \o ")"]

\* the run ends early: u.error (exit 1) or an uncaught exception
Abort(how) ==
  /\ pc' = "exit"
  /\ failure' = how
  /\ UNCHANGED <<inputs, idx, dies, curdieoff, cu_offset, results, origin, lookups, rlrefs,
                 rangestate, ranged_items, suffixes, out, log>>

(***************************************************************************)
(* read_die_chain(lines): one iteration of its loop; first and second pass *)
(***************************************************************************)

\* the store after one line of the dump
ReadLine(store, cur, line) ==
  LET m1 == Match(bdiere, line)
      odec == PyInt16(Group(line, m1, 1))
  IN IF m1.ok
     THEN [dies |-> DictAppend(store, odec, line), curdieoff |-> odec]
     ELSE IF Match(indiere, line).ok
     THEN [dies |-> DictAppend(store, cur, line), curdieoff |-> cur]
     ELSE [dies |-> store, curdieoff |-> cur]

\* int(absoff, 16) raises ValueError on a DIE start line
ReadRaises(line) ==
  LET m1 == Match(bdiere, line)
  IN m1.ok /\ ~HexOk(Group(line, m1, 1))

\* the store after the lines from k on
RECURSIVE ReadFrom(_, _, _, _)
ReadFrom(lines, k, store, cur) ==
  IF k > Len(lines) THEN store
  ELSE ReadFrom(lines, k + 1, ReadLine(store, cur, lines[k]).dies,
                ReadLine(store, cur, lines[k]).curdieoff)

\* read_die_chain(lines) when it does not raise
read_die_chain(lines) == ReadFrom(lines, 1, <<>>, NoneKey)

\* where dodwarf goes once collect_ranged_items is over its DIE loop
AfterCollect(refs) == IF Len(refs) > 0 THEN "ranges" ELSE "annot"

ReadDieLine ==
  /\ pc \in {"read1", "read2"}
  /\ LET lines == IF pc = "read1" THEN lines1 ELSE lines2
         line == lines[idx]
         last == idx = Len(lines)
         nxt == ReadLine(dies, curdieoff, line)
     IN IF ReadRaises(line)
        THEN Abort("ValueError")
        ELSE /\ dies' = nxt.dies
             /\ curdieoff' = nxt.curdieoff
             /\ idx' = IF last THEN 1 ELSE idx + 1
             /\ pc' = IF ~last THEN pc
                      ELSE IF pc = "read1" THEN "findcu"
                      ELSE IF Len(nxt.dies) > 0 THEN "collect"
                      ELSE "annot"
             /\ UNCHANGED <<inputs, cu_offset, results, origin, lookups, rlrefs, rangestate,
                            ranged_items, suffixes, out, log, failure>>

(***************************************************************************)
(* dodwarf: the search for the compile unit named by -W                    *)
(***************************************************************************)

\* cu_offset after the loop over dies.items() from entry k on
RECURSIVE FindCuFrom(_, _, _, _)
FindCuFrom(store, k, flag, cur) ==
  IF k > Len(store) THEN [ok |-> TRUE, cu_offset |-> cur]
  ELSE LET d == expand_die(store[k].val)
       IN IF ~d.ok THEN [ok |-> FALSE, cu_offset |-> cur]
          ELSE IF /\ d.tag = "DW_TAG_compile_unit"
                  /\ DictHas(d.attrs, "DW_AT_name")
                  /\ DictGet(d.attrs, "DW_AT_name") = flag
          THEN FindCuFrom(store, k + 1, flag,
                          "--dwarf-start=" \o ToDec(store[k].key))
          ELSE FindCuFrom(store, k + 1, flag, cur)

\* the "found DWARF" lines of the loop over dies.items() from entry k on
RECURSIVE FoundLines(_, _, _)
FoundLines(store, k, flag) ==
  IF k > Len(store) THEN <<>>
  ELSE (IF /\ expand_die(store[k].val).tag = "DW_TAG_compile_unit"
           /\ DictHas(expand_die(store[k].val).attrs, "DW_AT_name")
           /\ DictGet(expand_die(store[k].val).attrs, "DW_AT_name") = flag
        THEN <<"found DWARF " \o flag \o " cu at offset " \o ToDec(store[k].key)>>
        ELSE <<>>)
       \o FoundLines(store, k + 1, flag)

\* the search taking the last DIE of the store whatever its tag and name
FindCuAny(store, flag) ==
  IF Len(store) = 0 THEN [ok |-> TRUE, cu_offset |-> ""]
  ELSE [ok |-> TRUE,
        cu_offset |-> "--dwarf-start=" \o ToDec(store[Len(store)].key)]

\* cu_offset as dodwarf computes it ("" for None); with -W . no unit is sought
FindCu(store, flag) ==
  IF flag # "." THEN FindCuFrom(store, 1, flag, "")
  ELSE [ok |-> TRUE, cu_offset |-> ""]

FindCompileUnit ==
  /\ pc = "findcu"
  /\ LET r == FindCu(dies, flag_dwarf_cu)
     IN IF ~r.ok THEN Abort("u.error")
        ELSE /\ cu_offset' = r.cu_offset
             /\ IF r.cu_offset = ""
                THEN /\ log' = Append(log, "warning: could not locate DWARF compilation unit "
                                             \o flag_dwarf_cu)
                     /\ pc' = "annot"
                     /\ UNCHANGED <<dies, curdieoff>>
                ELSE /\ pc' = "read2"
                     /\ dies' = <<>>
                     /\ curdieoff' = NoneKey
                     /\ log' = log \o verbose(flag_debug, 1,
                                               FoundLines(dies, 1, flag_dwarf_cu))
             /\ idx' = 1
             /\ UNCHANGED <<inputs, results, origin, lookups, rlrefs, rangestate, ranged_items,
                            suffixes, out, failure>>

(***************************************************************************)
(* collect_ranged_items(lm, dies): one iteration of its loop over the DIEs *)
(***************************************************************************)

CollectDie ==
  /\ pc = "collect"
  /\ LET dieoff == dies[idx].key
         d == expand_die(dies[idx].val)
         last == idx = Len(dies)
         pcr == get_pc_range(d.attrs)
         lodec == pcr[1]
         hidec == pcr[2]
         rlref == grab_hex_attr(d.attrs, "DW_AT_ranges")
         haspc == lodec # -1 /\ hidec # -1
         results1 == IF haspc
                     THEN Append(results,
                                 <<collect_die_nametag(d.attrs, dieoff, d.tag, dies),
                                   lodec, hidec>>)
                     ELSE results
         rlrefs1 == IF ~haspc /\ rlref # -1
                    THEN DictAppend(rlrefs, rlref,
                                    [attrs |-> d.attrs, off |-> dieoff, tag |-> d.tag])
                    ELSE rlrefs
     IN IF ~d.ok THEN Abort("u.error")
        ELSE IF PcRangeRaises(d.attrs) THEN Abort("ValueError")
        ELSE IF haspc /\ NametagFails(d.attrs, dieoff, d.tag, dies)
        THEN Abort("nametag")
        ELSE IF ~haspc /\ GrabRaises(d.attrs, "DW_AT_ranges") THEN Abort("ValueError")
        ELSE /\ results' = results1
             /\ origin' = IF haspc THEN Append(origin, dieoff) ELSE origin
             /\ lookups' = IF haspc
                           THEN Append(lookups,
                                       NametagLookups(d.attrs, dieoff, d.tag, dies))
                           ELSE lookups
             /\ rlrefs' = rlrefs1
             /\ idx' = IF last THEN 1 ELSE idx + 1
             /\ pc' = IF last THEN AfterCollect(rlrefs1) ELSE pc
             /\ ranged_items' = IF last /\ AfterCollect(rlrefs1) = "annot"
                                THEN results1 ELSE ranged_items
             /\ log' = log
                       \o verbose(flag_debug, 1,
                                  IF haspc THEN NametagLines(d.attrs, dieoff, d.tag, dies)
                                  ELSE IF rlref # -1
                                  THEN <<"queued rref=" \o ToHex(rlref) \o " tag=" \o d.tag
                                         \o " off=" \o ToHex(dieoff) \o " in rlrefs">>
                                  ELSE <<>>)
                       \o (IF last /\ AfterCollect(rlrefs1) = "annot"
                           THEN verbose(flag_debug, 1, RangedItemLines(results1))
                           ELSE <<>>)
             /\ dies' = IF haspc THEN NametagStore(d.attrs, dieoff, d.tag, dies)
                        ELSE dies
             /\ UNCHANGED <<inputs, curdieoff, cu_offset, rangestate,
                            suffixes, out, failure>>

(***************************************************************************)
(* postprocess_rangerefs: one iteration of its loop over the range dump    *)
(***************************************************************************)

\* the parser's variables after one line of the dump when a singleton's pair
\* is put in front of the current range instead of behind it
RangeStepPrepend(st, refs, line) ==
  LET m == Match(endre, line)
      m1 == Match(singre, line)
  IN IF ~st.inrange /\ Match(basere, line).ok
     THEN [st EXCEPT !.inrange = TRUE, !.off = -1]
     ELSE IF st.inrange /\ m.ok
     THEN [st EXCEPT !.inrange = FALSE,
                     !.off = PyInt16(Group(line, m, 1)),
                     !.refranges = DictSet(st.refranges, PyInt16(Group(line, m, 1)),
                                           st.crange),
                     !.crange = <<>>]
     ELSE IF m1.ok
     THEN [st EXCEPT !.inrange = TRUE,
                     !.off = PyInt16(Group(line, m1, 1)),
                     !.crange = IF DictHas(refs, PyInt16(Group(line, m1, 1)))
                                THEN <<<<PyInt16(Group(line, m1, 2)),
                                         PyInt16(Group(line, m1, 3))>>>>
                                     \o st.crange
                                ELSE st.crange]
     ELSE [st EXCEPT !.off = -1, !.unmatched = Append(st.unmatched, line)]

\* the parser's variables after one line of the dump
RangeStep(st, refs, line) ==
  LET m == Match(endre, line)
      m1 == Match(singre, line)
  IN IF ~st.inrange /\ Match(basere, line).ok
     THEN [st EXCEPT !.inrange = TRUE, !.off = -1]
     ELSE IF st.inrange /\ m.ok
     THEN [st EXCEPT !.inrange = FALSE,
                     !.off = PyInt16(Group(line, m, 1)),
                     !.refranges = DictSet(st.refranges, PyInt16(Group(line, m, 1)),
                                           st.crange),
                     !.crange = <<>>]
     ELSE IF m1.ok
     THEN [st EXCEPT !.inrange = TRUE,
                     !.off = PyInt16(Group(line, m1, 1)),
                     !.crange = IF DictHas(refs, PyInt16(Group(line, m1, 1)))
                                THEN Append(st.crange,
                                            <<PyInt16(Group(line, m1, 2)),
                                              PyInt16(Group(line, m1, 3))>>)
                                ELSE st.crange]
     ELSE [st EXCEPT !.off = -1, !.unmatched = Append(st.unmatched, line)]

RangeLine ==
  /\ pc = "ranges"
  /\ LET st == [refranges |-> refranges, inrange |-> inrange, crange |-> crange,
                off |-> off, unmatched |-> unmatched]
         nxt == RangeStep(st, rlrefs, rnglines[idx])
         last == idx = Len(rnglines)
     IN /\ refranges' = nxt.refranges
        /\ inrange' = nxt.inrange
        /\ crange' = nxt.crange
        /\ off' = nxt.off
        /\ unmatched' = nxt.unmatched
        /\ idx' = IF last THEN 1 ELSE idx + 1
        /\ pc' = IF last THEN "post" ELSE pc
  /\ UNCHANGED <<inputs, dies, curdieoff, cu_offset, results, origin, lookups, rlrefs,
                 ranged_items, suffixes, out, log, failure>>

(***************************************************************************)
(* postprocess_rangerefs: one iteration of its loop over rlrefs.items()    *)
(***************************************************************************)

\* the loop over the pairs of a range list leaving after the first pair
NamedPairsFirst(name, pairs) ==
  IF Len(pairs) = 0 THEN <<>>
  ELSE <<<<name, pairs[1][1], pairs[1][2]>>>>

\* the intervals one queued DIE gets from the pairs of a range list
RECURSIVE NamedPairs(_, _)
NamedPairs(name, pairs) ==
  IF Len(pairs) = 0 THEN <<>>
  ELSE <<<<name, pairs[1][1], pairs[1][2]>>>> \o NamedPairs(name, Tail(pairs))

\* the intervals of all the DIEs queued under one range-list offset
RECURSIVE RefIntervals(_, _, _)
RefIntervals(tlist, pairs, store) ==
  IF Len(tlist) = 0 THEN <<>>
  ELSE NamedPairs(collect_die_nametag(tlist[1].attrs, tlist[1].off,
                                      tlist[1].tag, store), pairs)
       \o RefIntervals(Tail(tlist), pairs, store)

\* the u.verbose(1, ..) lines of the name lookups of RefIntervals
RECURSIVE RefNametagLines(_, _)
RefNametagLines(tlist, store) ==
  IF Len(tlist) = 0 THEN <<>>
  ELSE NametagLines(tlist[1].attrs, tlist[1].off, tlist[1].tag, store)
       \o RefNametagLines(Tail(tlist), store)

\* the store after the name lookups of RefIntervals
RECURSIVE RefStore(_, _)
RefStore(tlist, store) ==
  IF Len(tlist) = 0 THEN store
  ELSE RefStore(Tail(tlist),
                NametagStore(tlist[1].attrs, tlist[1].off, tlist[1].tag, store))

\* the DIE offsets that go with RefIntervals
RECURSIVE RefOrigins(_, _)
RefOrigins(tlist, pairs) ==
  IF Len(tlist) = 0 THEN <<>>
  ELSE [i \in 1..Len(pairs) |-> tlist[1].off] \o RefOrigins(Tail(tlist), pairs)

PostprocessRef ==
  /\ pc = "post"
  /\ LET roff == rlrefs[idx].key
         tlist == rlrefs[idx].val
         last == idx = Len(rlrefs)
         found == DictHas(refranges, roff)
         results1 == IF found
                     THEN results \o RefIntervals(tlist, DictGet(refranges, roff), dies)
                     ELSE results
     IN IF found /\ \E i \in 1..Len(tlist) :
                       NametagFails(tlist[i].attrs, tlist[i].off, tlist[i].tag, dies)
        THEN Abort("nametag")
        ELSE /\ results' = results1
             /\ origin' = IF found
                          THEN origin \o RefOrigins(tlist, DictGet(refranges, roff))
                          ELSE origin
             /\ lookups' = IF found
                           THEN lookups
                                \o [i \in 1..Len(tlist) |->
                                      NametagLookups(tlist[i].attrs, tlist[i].off,
                                                     tlist[i].tag, dies)]
                           ELSE lookups
             /\ log' = log
                       \o (IF found
                           THEN verbose(flag_debug, 1, RefNametagLines(tlist, dies))
                           ELSE verbose(flag_debug, 1,
                                        <<"could not locate offset " \o ToHex(off)
                                          \o " in .debug_ranges">>))
                       \o (IF last THEN verbose(flag_debug, 1, RangedItemLines(results1))
                           ELSE <<>>)
             /\ idx' = IF last THEN 1 ELSE idx + 1
             /\ pc' = IF last THEN "annot" ELSE pc
             /\ ranged_items' = IF last THEN results1 ELSE ranged_items
             /\ dies' = IF found THEN RefStore(tlist, dies) ELSE dies
             /\ UNCHANGED <<inputs, curdieoff, cu_offset, rlrefs, rangestate,
                            suffixes, out, failure>>

(***************************************************************************)
(* dodwarf: one iteration of the output loop over asmlines                 *)
(***************************************************************************)

\* the loop over ranged_items testing hi == decaddr before lo == decaddr
RECURSIVE SuffixesEndFirst(_, _)
SuffixesEndFirst(items, decaddr) ==
  IF Len(items) = 0 THEN <<>>
  ELSE (IF items[1][3] = decaddr THEN <<" end " \o items[1][1]>> ELSE <<>>)
       \o (IF items[1][2] = decaddr THEN <<" begin " \o items[1][1]>> ELSE <<>>)
       \o SuffixesEndFirst(Tail(items), decaddr)

\* the suffixes list the loop over ranged_items builds for one address
RECURSIVE Suffixes(_, _)
Suffixes(items, decaddr) ==
  IF Len(items) = 0 THEN <<>>
  ELSE (IF items[1][2] = decaddr THEN <<" begin " \o items[1][1]>> ELSE <<>>)
       \o (IF items[1][3] = decaddr THEN <<" end " \o items[1][1]>> ELSE <<>>)
       \o Suffixes(Tail(items), decaddr)

\* the output of a line without the test "if suffixes:"
AnnotateAlways(line, items) ==
  LET m1 == Match(asmre, line)
      addr == Group(line, m1, 2)
  IN IF ~m1.ok THEN line
     ELSE IF ~HexOk(addr) THEN line
     ELSE Group(line, m1, 1) \o addr \o Group(line, m1, 3)
          \o " // " \o Join(Suffixes(items, PyInt16(addr)), ",")

\* what is written to stdout for one line, without the closing "\n"
Annotate(line, items) ==
  LET m1 == Match(asmre, line)
      sp == Group(line, m1, 1)
      addr == Group(line, m1, 2)
      rem == Group(line, m1, 3)
      sfx == Suffixes(items, PyInt16(addr))
  IN IF ~m1.ok THEN line
     ELSE IF ~HexOk(addr) THEN line
     ELSE sp \o addr \o rem
          \o (IF Len(sfx) > 0 THEN " // " \o Join(sfx, ",") ELSE "")

AnnotateLine ==
  /\ pc = "annot"
  /\ LET line == asmlines[idx]
         m1 == Match(asmre, line)
         addr == Group(line, m1, 2)
         last == idx = Len(asmlines)
     IN /\ out' = Append(out, Annotate(line, ranged_items))
        /\ suffixes' = IF m1.ok /\ HexOk(addr)
                       THEN Suffixes(ranged_items, PyInt16(addr))
                       ELSE suffixes
        /\ idx' = IF last THEN 1 ELSE idx + 1
        /\ pc' = IF last THEN "done" ELSE pc
  /\ UNCHANGED <<inputs, dies, curdieoff, cu_offset, results, origin, lookups, rlrefs,
                 rangestate, ranged_items, log, failure>>

(***************************************************************************)
(* normalize-dwarf-objdump.py: compute_reloff, munge_attrval, emit_die,    *)
(* attrval.                                                                *)
(***************************************************************************)

\* compute_reloff(absoff, origin)
compute_reloff(absoff, origin_) ==
  IF ~flag_normalize THEN PyInt16(absoff)
  ELSE PyInt16(absoff) - PyInt16(origin_)

\* compute_reloff raises ValueError out of int(.., 16)
ReloffRaises(absoff, origin_) ==
  ~HexOk(absoff) \/ (flag_normalize /\ ~HexOk(origin_))

\* re.sub of the text old by new in s; old has no character special to re
RECURSIVE ReSub(_, _, _)
ReSub(old, new, s) ==
  IF Len(s) = 0 THEN ""
  ELSE IF LitAt(s, 1, old) THEN new \o ReSub(old, new, Sub(s, Len(old) + 1, Len(s)))
  ELSE Char(s, 1) \o ReSub(old, new, Sub(s, 2, Len(s)))

\* munge_attrval(attr, oval, diestart) with abstorel: the new value, and
\* untracked_dwrefs after the call
munge_attrval(attr, oval, diestart_, untracked) ==
  LET m1 == Match(attrdwoffre, oval)
      absref == Group(oval, m1, 2)
      code == IF ~m1.ok THEN 2 ELSE IF DictHas(diestart_, absref) THEN 0 ELSE 1
      unk == IF flag_normalize
             THEN " <untracked " \o ToDec(Len(untracked) + 1) \o ">"
             ELSE " <untracked 0x" \o absref \o ">"
      fresh == code = 1 /\ ~DictHas(untracked, absref)
      val == IF code = 0
             THEN ReSub("<0x" \o absref \o ">",
                        "<0x" \o ToHex(DictGet(diestart_, absref)) \o ">", oval)
             ELSE IF code = 2 THEN oval
             ELSE IF fresh THEN unk ELSE DictGet(untracked, absref)
  IN [val |-> IF flag_strip_pcinfo /\ attr \in {"DW_AT_low_pc", "DW_AT_high_pc"}
              THEN "<stripped>" ELSE val,
      untracked |-> IF fresh THEN DictSet(untracked, absref, unk) ELSE untracked]

\* indiere.match(line), or indie2re.match(line) when that fails
AttrMatch(line) ==
  IF Match(indiere, line).ok THEN Match(indiere, line) ELSE Match(indie2re, line)

\* emit_die: the line written for one attribute line, or the ValueError of
\* compute_reloff
EmitAttr(line, origin_, diename_, diestart_, untracked) ==
  LET m2 == AttrMatch(line)
      absoff == Group(line, m2, 2)
      attr == Group(line, m2, 4)
      m3 == Match(absore, line)
      isorigin == attr = "DW_AT_abstract_origin" /\ m3.ok
      addend == IF isorigin /\ DictHas(diename_, compute_reloff(Group(line, m3, 1), origin_))
                THEN "// " \o DictGet(diename_, compute_reloff(Group(line, m3, 1), origin_))
                ELSE ""
      mv == munge_attrval(attr, Group(line, m2, 6), diestart_, untracked)
  IN IF \/ ReloffRaises(absoff, origin_)
        \/ isorigin /\ ReloffRaises(Group(line, m3, 1), origin_)
     THEN [ok |-> FALSE, text |-> "", untracked |-> untracked]
     ELSE [ok |-> TRUE,
           text |-> Group(line, m2, 1)
                    \o (IF flag_strip_offsets THEN ""
                        ELSE "<" \o ToHex(compute_reloff(absoff, origin_)) \o ">")
                    \o Group(line, m2, 3) \o attr \o ":" \o Group(line, m2, 5)
                    \o mv.val \o addend,
           untracked |-> mv.untracked]

\* emit_die: the loop over lines[1:] from line k on; w is what was written
RECURSIVE EmitAttrs(_, _, _, _, _, _, _)
EmitAttrs(lines, k, origin_, diename_, diestart_, untracked, w) ==
  IF k > Len(lines) THEN [ok |-> TRUE, out |-> w, untracked |-> untracked]
  ELSE IF ~EmitAttr(lines[k], origin_, diename_, diestart_, untracked).ok
  THEN [ok |-> FALSE, out |-> w, untracked |-> untracked]
  ELSE EmitAttrs(lines, k + 1, origin_, diename_, diestart_,
                 EmitAttr(lines[k], origin_, diename_, diestart_, untracked).untracked,
                 Append(w, EmitAttr(lines[k], origin_, diename_, diestart_,
                                    untracked).text))

\* emit_die(lines, outf, origin, diename, diestart): the lines written and
\* untracked_dwrefs after the call; ok is FALSE when a ValueError ends it
emit_die(lines, origin_, diename_, diestart_, untracked) ==
  LET m1 == Match(bdiere_norm, lines[1])
      absoff == Group(lines[1], m1, 3)
  IN IF ReloffRaises(absoff, origin_)
     THEN [ok |-> FALSE, out |-> <<>>, untracked |-> untracked]
     ELSE EmitAttrs(lines, 2, origin_, diename_, diestart_, untracked,
                    <<Group(lines[1], m1, 1) \o "<" \o Group(lines[1], m1, 2) \o ">"
                      \o (IF flag_strip_offsets THEN ""
                          ELSE "<" \o ToHex(compute_reloff(absoff, origin_)) \o ">")
                      \o ":" \o Group(lines[1], m1, 4)>>)

\* attrval(lines, tattr), from line k of the DIE on
RECURSIVE attrval(_, _, _)
attrval(lines, k, tattr) ==
  IF k > Len(lines) THEN ""
  ELSE IF Group(lines[k], AttrMatch(lines[k]), 4) = tattr
  THEN Strip(Group(lines[k], AttrMatch(lines[k]), 6))
  ELSE attrval(lines, k + 1, tattr)

(***************************************************************************)
(* normalize-dwarf-objdump.py: read_die, one iteration of its loop, and    *)
(* perform_filt, one iteration of its loop once read_die has returned.     *)
(***************************************************************************)

\* u.error (exit 1) or an uncaught exception ends the filter
FiltAbort(how) ==
  /\ fpc' = "exit"
  /\ ffailure' = how
  /\ UNCHANGED <<filtflags, infpos, linebuf, linebuffered, readlog, dielines, indie,
                 diepos, outf, outsrc, emitted, diestart, diename, filt_origin,
                 filtered, untracked_dwrefs>>

\* read_die returns lines to perform_filt, which leaves its loop on no lines
ReadDieReturn ==
  /\ fpc' = IF Len(dielines) = 0 THEN "done" ELSE "die"
  /\ UNCHANGED <<dielines, indie, diepos, outf, outsrc>>

\* read_line(inf) that leaves linebuffered set when it returns linebuf
read_line_keep(lines, buffered, buf, pos) ==
  IF buffered
  THEN [line |-> buf, eof |-> FALSE, linebuffered |-> TRUE, infpos |-> pos]
  ELSE IF pos > Len(lines)
  THEN [line |-> "", eof |-> TRUE, linebuffered |-> FALSE, infpos |-> pos]
  ELSE [line |-> lines[pos], eof |-> FALSE, linebuffered |-> FALSE, infpos |-> pos + 1]

\* read_line(inf): the line returned (eof: the empty string of the end of
\* the input), linebuffered and the position in the input after the call
read_line(lines, buffered, buf, pos) ==
  IF buffered
  THEN [line |-> buf, eof |-> FALSE, linebuffered |-> FALSE, infpos |-> pos]
  ELSE IF pos > Len(lines)
  THEN [line |-> "", eof |-> TRUE, linebuffered |-> FALSE, infpos |-> pos]
  ELSE [line |-> lines[pos], eof |-> FALSE, linebuffered |-> FALSE, infpos |-> pos + 1]

\* unread_line(line): ok is FALSE at u.error("internal error: multiple line
\* unread")
unread_line(buffered, buf, line) ==
  IF buffered THEN [ok |-> FALSE, linebuffered |-> buffered, linebuf |-> buf]
  ELSE [ok |-> TRUE, linebuffered |-> TRUE, linebuf |-> line]

ReadDieStep ==
  /\ fpc = "read"
  /\ LET rl == read_line(inf, linebuffered, linebuf, infpos)
         line == rl.line
         at == rl.infpos - 1
         m1 == Match(bdiere_norm, line)
         unread == indie /\ (m1.ok \/ ~AttrMatch(line).ok)
         ul == unread_line(rl.linebuffered, linebuf, line)
     IN /\ infpos' = rl.infpos
        /\ readlog' = Append(readlog, [at |-> at, eof |-> rl.eof,
                                       buffered |-> linebuffered])
        /\ IF rl.eof
           THEN /\ ReadDieReturn
                /\ linebuffered' = rl.linebuffered
                /\ UNCHANGED <<linebuf, ffailure>>
           ELSE IF unread /\ ~ul.ok
           THEN /\ fpc' = "exit"
                /\ ffailure' = "multiple line unread"
                /\ linebuffered' = ul.linebuffered
                /\ UNCHANGED <<linebuf, dielines, indie, diepos, outf, outsrc>>
           ELSE IF unread
           THEN /\ linebuffered' = ul.linebuffered
                /\ linebuf' = ul.linebuf
                /\ ReadDieReturn
                /\ UNCHANGED ffailure
           ELSE /\ linebuffered' = rl.linebuffered
                /\ fpc' = fpc
                /\ dielines' = IF ~indie /\ ~m1.ok THEN dielines
                               ELSE Append(dielines, line)
                /\ indie' = (indie \/ m1.ok)
                /\ diepos' = IF ~indie /\ m1.ok THEN at ELSE diepos
                /\ outf' = IF ~indie /\ ~m1.ok THEN Append(outf, line) ELSE outf
                /\ outsrc' = IF ~indie /\ ~m1.ok
                             THEN Append(outsrc, [at |-> at, echo |-> TRUE])
                             ELSE outsrc
                /\ UNCHANGED <<linebuf, ffailure>>
  /\ UNCHANGED <<flag_debug, dwarfvars, dcvars, utilvars, filtflags, emitted, diestart,
                 diename, filt_origin, filtered, untracked_dwrefs>>

\* filtered after the DIE of lines whose tag is tag
FilteredAfter(lines, tag) ==
  IF /\ flag_compunits # {}
     /\ tag = "compile_unit"
     /\ attrval(lines, 2, "DW_AT_name") # ""
  THEN attrval(lines, 2, "DW_AT_name") \notin flag_compunits
  ELSE filtered

FiltDie ==
  /\ fpc = "die"
  /\ LET m1 == Match(bdiere_norm, dielines[1])
         absoff == Group(dielines[1], m1, 3)
         rem == Group(dielines[1], m1, 4)
         origin1 == IF filt_origin = "" THEN absoff ELSE filt_origin
         diestart1 == DictSet(diestart, absoff, compute_reloff(absoff, origin1))
         zero == Match(bdiezre, rem).ok
         m2 == Match(bdiebodre, rem)
         filtered1 == IF zero THEN filtered
                      ELSE FilteredAfter(dielines, Group(rem, m2, 1))
         e == emit_die(dielines, origin1, diename, diestart1, untracked_dwrefs)
     IN IF ReloffRaises(absoff, origin1) THEN FiltAbort("ValueError")
        ELSE IF ~zero /\ ~m2.ok THEN FiltAbort("u.error")
        ELSE /\ filt_origin' = origin1
             /\ diestart' = diestart1
             /\ filtered' = filtered1
             /\ outf' = IF filtered1 THEN outf ELSE outf \o e.out
             /\ outsrc' = IF filtered1 THEN outsrc
                          ELSE outsrc \o [k \in 1..Len(e.out) |->
                                            [at |-> diepos + k - 1, echo |-> FALSE]]
             /\ untracked_dwrefs' = IF filtered1 THEN untracked_dwrefs ELSE e.untracked
             /\ emitted' = IF filtered1 THEN emitted ELSE Append(emitted, diepos)
             /\ IF ~filtered1 /\ ~e.ok
                THEN /\ fpc' = "exit"
                     /\ ffailure' = "ValueError"
                     /\ UNCHANGED <<dielines, indie>>
                ELSE /\ fpc' = "read"
                     /\ ffailure' = ffailure
                     /\ dielines' = <<>>
                     /\ indie' = FALSE
             /\ UNCHANGED <<filtflags, infpos, linebuf, linebuffered, readlog, diepos,
                            diename>>
  /\ UNCHANGED <<flag_debug, dwarfvars, dcvars, utilvars>>

(***************************************************************************)
(* dump-compunit-dwarf.py: parse_args, and perform up to the command of    *)
(* step 2.                                                                 *)
(***************************************************************************)

\* python truth of flag_offset_to_find: None and 0 are false
OffsetGiven(v) == v # NoneKey /\ v # 0

\* usage(msg), u.error(msg) or an uncaught exception: the script exits
DcExit(how, msg) ==
  /\ dc_pc' = "exit"
  /\ dc_failure' = how
  /\ dc_err' = Append(dc_err, msg)

\* parse_args for the options -x and -n, with -m given
ParseArgs ==
  /\ dc_pc = "args"
  /\ LET m == Match(xargre, dc_argv.x)
         v == IF dc_argv.x = "" THEN NoneKey ELSE PyInt16(Group(dc_argv.x, m, 1))
         name == dc_argv.n
     IN IF dc_argv.x # "" /\ (~m.ok \/ ~HexOk(Group(dc_argv.x, m, 1)))
        THEN /\ DcExit("usage", "error: supply argument of the form 0x<hexliteral> to -x option")
             /\ UNCHANGED <<flag_offset_to_find, flag_name_to_find>>
        ELSE /\ flag_offset_to_find' = v
             /\ flag_name_to_find' = name
             /\ IF OffsetGiven(v) /\ name # ""
                THEN DcExit("usage", "error: specify at most one of -x and -n")
                ELSE IF ~OffsetGiven(v) /\ name = ""
                THEN DcExit("usage", "error: specify offset to find with -x or name to find with -n")
                ELSE /\ dc_pc' = "scan"
                     /\ UNCHANGED <<dc_err, dc_failure>>
  /\ UNCHANGED <<flag_debug, dwarfvars, filtvars, utilvars, dc_inputs, dc_idx, dc_units, dc_lo,
                 dc_hi, dc_binoff, dc_maxoff, dc_selectoff, dc_found, dc_cmd,
                 dc_step2>>

\* perform, step 1: one iteration of the loop over the lines of the unit dump
ScanLine ==
  /\ dc_pc = "scan"
  /\ dc_idx <= Len(dc_lines)
  /\ LET line == dc_lines[dc_idx]
         m == Match(cre, line)
         binoff1 == IF m.ok THEN PyInt16(Group(line, m, 1)) ELSE dc_binoff
         byoff == m.ok /\ OffsetGiven(flag_offset_to_find)
         below == byoff /\ binoff1 <= flag_offset_to_find
         above == byoff /\ binoff1 > flag_offset_to_find
         m2 == Match(namere, line)
         named == /\ flag_name_to_find # ""
                  /\ m2.ok
                  /\ Group(line, m2, 1) = flag_name_to_find
     IN IF m.ok /\ ~HexOk(Group(line, m, 1))
        THEN /\ dc_pc' = "exit"
             /\ dc_failure' = "ValueError"
             /\ UNCHANGED <<dc_idx, dc_units, dc_lo, dc_hi, dc_binoff, dc_maxoff,
                            dc_selectoff, dc_found>>
        ELSE /\ dc_binoff' = binoff1
             /\ dc_lo' = IF below THEN dc_units ELSE dc_lo
             /\ dc_hi' = IF above THEN dc_units ELSE dc_hi
             /\ dc_maxoff' = IF m.ok /\ ~above THEN binoff1 ELSE dc_maxoff
             /\ dc_units' = IF m.ok /\ ~above THEN dc_units + 1 ELSE dc_units
             /\ dc_selectoff' = IF below \/ (~above /\ named) THEN binoff1
                                ELSE dc_selectoff
             /\ dc_found' = (dc_found \/ below \/ (~above /\ named))
             \* break on a unit above the offset
             /\ dc_idx' = IF above THEN Len(dc_lines) + 1 ELSE dc_idx + 1
             /\ UNCHANGED <<dc_pc, dc_failure>>
  /\ UNCHANGED <<flag_debug, dwarfvars, filtvars, utilvars, dc_inputs, flag_offset_to_find,
                 flag_name_to_find, dc_cmd, dc_err, dc_step2>>

\* perform, after the loop: the warnings and the command of step 2
SelectUnit ==
  /\ dc_pc = "scan"
  /\ dc_idx > Len(dc_lines)
  /\ LET last == IF OffsetGiven(flag_offset_to_find) /\ dc_hi = -1
                 THEN <<"warning: could not find CU with offset higher than "
                        \o ToHex(flag_offset_to_find)
                        \o "; dumping last CU at offset " \o ToHex(dc_maxoff)>>
                 ELSE <<>>
     IN IF dc_units = 0
        THEN /\ dc_pc' = "exit"
             /\ dc_failure' = ""
             /\ dc_err' = Append(dc_err, "warning: no DWARF compile units in "
                                          \o LoadModule \o ", dump aborted")
             /\ dc_cmd' = dc_cmd
        ELSE IF flag_name_to_find # "" /\ ~dc_found
        THEN /\ dc_pc' = "exit"
             /\ dc_failure' = "u.error"
             /\ dc_err' = dc_err \o last
                          \o <<"error: could not find CU with name " \o flag_name_to_find>>
             /\ dc_cmd' = dc_cmd
        ELSE /\ dc_pc' = "dump"
             /\ dc_failure' = dc_failure
             /\ dc_err' = dc_err \o last
             /\ dc_cmd' = "objdump --dwarf=info --dwarf-start=" \o ToDec(dc_selectoff)
                          \o " " \o LoadModule
  /\ UNCHANGED <<flag_debug, dwarfvars, filtvars, utilvars, dc_inputs, flag_offset_to_find,
                 flag_name_to_find, dc_idx, dc_units, dc_lo, dc_hi, dc_binoff,
                 dc_maxoff, dc_selectoff, dc_found, dc_step2>>

\* the first line at or after k that opens the unit at offset start, 0 if none
RECURSIVE UnitLineFrom(_, _, _)
UnitLineFrom(full, k, start) ==
  IF k > Len(full) THEN 0
  ELSE LET m == Match(cre, full[k])
       IN IF m.ok /\ HexOk(Group(full[k], m, 1))
             /\ PyInt16(Group(full[k], m, 1)) = start
          THEN k
          ELSE UnitLineFrom(full, k + 1, start)

\* the lines of a dump without its 'Compilation Unit @ offset' header lines
\* and the field lines below them
RECURSIVE WithoutHeaders(_, _, _)
WithoutHeaders(lines, k, inhead) ==
  IF k > Len(lines) THEN <<>>
  ELSE LET line == lines[k]
           head == Match(cre, line).ok
           die == Match(bdiere_norm, line).ok
           skip == head \/ (inhead /\ ~die)
       IN (IF skip THEN <<>> ELSE <<line>>)
          \o WithoutHeaders(lines, k + 1, skip)

\* what the pipe of step 2 delivers: objdump --dwarf=info --dwarf-start=start
\* prints the whole dump for start 0, and the dump from the unit at start on
\* otherwise
DwarfStart(full, start, quiet) ==
  IF start = 0 THEN full
  ELSE LET k == UnitLineFrom(full, 1, start)
           rest == IF k = 0 THEN <<>> ELSE SubSeq(full, k, Len(full))
       IN IF quiet THEN WithoutHeaders(rest, 1, FALSE) ELSE rest

\* perform, step 2: one iteration of the loop over the lines of the pipe
DumpLine ==
  /\ dc_pc = "dump"
  /\ LET pipe == DwarfStart(dc_full, dc_selectoff, dc_quiet)
     IN IF dc_read >= Len(pipe)
        THEN \* readline returns "": break, and perform returns
             /\ dc_pc' = "done"
             /\ UNCHANGED dc_step2
        ELSE LET line == pipe[dc_read + 1]
                 ncomps == IF Match(cure, line).ok THEN dc_ncomps + 1
                           ELSE dc_ncomps
             IN /\ dc_read' = dc_read + 1
                /\ dc_ncomps' = ncomps
                /\ IF ncomps > 1
                   THEN /\ dc_pc' = "done"
                        /\ dc_out' = dc_out
                   ELSE /\ dc_pc' = dc_pc
                        /\ dc_out' = Append(dc_out, line)
  /\ UNCHANGED <<flag_debug, dwarfvars, filtvars, utilvars, dc_inputs, flag_offset_to_find,
                 flag_name_to_find, dc_idx, dc_units, dc_lo, dc_hi, dc_binoff,
                 dc_maxoff, dc_selectoff, dc_found, dc_cmd, dc_err, dc_failure>>

(***************************************************************************)
(* script_utils.docmdwithtimeout.  The steps of the main thread are the   *)
(* statements of the function; a second passes, the kernel sends SIGALRM   *)
(* and the interpreter runs the handler between any two of them.           *)
(***************************************************************************)

\* what the call leaves alone
ToFrame ==
  UNCHANGED <<flag_debug, dwarfvars, filtvars, dcvars, to_inputs, gsvars, stvars>>

\* prevhandler = signal.signal(signal.SIGALRM, handler)
ToSetHandler ==
  /\ to_pc = "start"
  /\ to_pc' = "alarm"
  /\ to_handler' = "handler"
  /\ UNCHANGED <<to_alarm, to_tripped, to_fired, to_ran, to_clock, to_result>>
  /\ ToFrame

\* signal.alarm(timeout_duration): 0 requests no alarm
ToSetAlarm ==
  /\ to_pc = "alarm"
  /\ to_pc' = "try"
  /\ to_alarm' = timeout_duration
  /\ UNCHANGED <<to_handler, to_tripped, to_fired, to_ran, to_clock, to_result>>
  /\ ToFrame

\* try: from here to the end of docmdnf the except clause is in force, and
\* docmdnf starts the command
ToEnterTry ==
  /\ to_pc = "try"
  /\ to_pc' = "cmd"
  /\ UNCHANGED <<to_handler, to_alarm, to_tripped, to_fired, to_ran, to_clock,
                 to_result>>
  /\ ToFrame

\* a second passes: the command runs on while docmdnf waits for it, and the
\* timer sends SIGALRM when it runs out
ToTick ==
  /\ to_pc \notin {"idle", "returned", "raised"}
  /\ to_clock < MaxSeconds
  /\ to_clock' = to_clock + 1
  /\ to_ran' = IF to_pc = "cmd" /\ to_ran < to_cmd.secs THEN to_ran + 1 ELSE to_ran
  /\ to_alarm' = IF to_alarm > 0 THEN to_alarm - 1 ELSE 0
  /\ to_tripped' = (to_tripped \/ to_alarm = 1)
  /\ UNCHANGED <<to_pc, to_handler, to_fired, to_result>>
  /\ ToFrame

\* the interpreter runs the handler of a received SIGALRM in the main thread:
\* handler raises TimeoutError where the thread is; "except TimeoutError"
\* catches it in the try block only (docmdnf's child is killed); a handler
\* other than the function's (prevhandler, restored) is not part of the call
ToHandler ==
  /\ to_tripped
  /\ to_pc \notin {"idle", "returned", "raised"}
  /\ to_tripped' = FALSE
  /\ IF to_handler = "handler"
     THEN /\ to_fired' = TRUE
          /\ IF to_pc = "cmd"
             THEN /\ to_result' = -1
                  /\ to_pc' = "finally"
             ELSE /\ to_pc' = "raised"
                  /\ to_result' = to_result
     ELSE UNCHANGED <<to_fired, to_pc, to_result>>
  /\ UNCHANGED <<to_handler, to_alarm, to_ran, to_clock>>
  /\ ToFrame

\* result = docmdnf(cmd): the command has ended and its status is returned
ToCommandDone ==
  /\ to_pc = "cmd"
  /\ to_ran >= to_cmd.secs
  /\ to_result' = to_cmd.rc
  /\ to_pc' = "finally"
  /\ UNCHANGED <<to_handler, to_alarm, to_tripped, to_fired, to_ran, to_clock>>
  /\ ToFrame

\* finally: signal.alarm(0)
ToCancelAlarm ==
  /\ to_pc = "finally"
  /\ to_alarm' = 0
  /\ to_pc' = "restore"
  /\ UNCHANGED <<to_handler, to_tripped, to_fired, to_ran, to_clock, to_result>>
  /\ ToFrame

\* signal.signal(signal.SIGALRM, prevhandler)
ToRestore ==
  /\ to_pc = "restore"
  /\ to_handler' = "prev"
  /\ to_pc' = "return"
  /\ UNCHANGED <<to_alarm, to_tripped, to_fired, to_ran, to_clock, to_result>>
  /\ ToFrame

\* return result
ToReturn ==
  /\ to_pc = "return"
  /\ to_pc' = "returned"
  /\ UNCHANGED <<to_handler, to_alarm, to_tripped, to_fired, to_ran, to_clock,
                 to_result>>
  /\ ToFrame

(***************************************************************************)
(* script_utils.get_git_status.                                            *)
(***************************************************************************)

\* what the call leaves alone
GsFrame ==
  UNCHANGED <<flag_debug, dwarfvars, filtvars, dcvars, tovars, stvars, gs_lines>>

\* u.error(msg): exit(1)
GsError ==
  /\ gs_pc' = "exit"
  /\ UNCHANGED <<gs_idx, gs_tables, gs_ret>>

\* the first line: branch is group 1 of the last pattern of bs that matches
GsBranchLine ==
  /\ gs_pc = "branch"
  /\ LET line == gs_lines[1]
         m0 == Match(gitre.bs[1], line)
         m == Match(gitre.bs[2], line)
         branch == IF m.ok THEN Group(line, m, 1)
                   ELSE IF m0.ok THEN Group(line, m0, 1) ELSE ""
     IN /\ gs_branch' = branch
        /\ IF branch = "" THEN GsError
           ELSE /\ gs_pc' = "loop"
                /\ gs_idx' = 2
                /\ UNCHANGED <<gs_tables, gs_ret>>
  /\ GsFrame

\* one iteration of "for line in lines[1:]"
GsStatusLine ==
  /\ gs_pc = "loop"
  /\ gs_idx <= Len(gs_lines)
  /\ LET line == gs_lines[gs_idx]
         m1 == Match(gitre.r1, line)
         m2 == Match(gitre.r2, line)
         continue == /\ gs_idx' = gs_idx + 1
                     /\ UNCHANGED <<gs_pc, gs_ret>>
     IN IF Match(gitre.rs, line).ok
        THEN continue /\ UNCHANGED gs_tables
        ELSE IF m1.ok
        THEN LET op == Group(line, m1, 1)
                 modfile == Group(line, m1, 2)
             IN IF op = "??"
                THEN /\ continue
                     /\ gs_untracked' = DictSet(gs_untracked, modfile, 1)
                     /\ UNCHANGED <<gs_modifications, gs_renames, gs_rev_renames>>
                ELSE IF op \in {"AM", "MM"} /\ Match(gitre.rb, modfile).ok
                THEN continue /\ UNCHANGED gs_tables
                ELSE IF \/ op \notin {"A", "M", "D"}
                        \/ DictHas(gs_modifications, modfile)
                THEN GsError
                ELSE /\ continue
                     /\ gs_modifications' = DictSet(gs_modifications, modfile, op)
                     /\ UNCHANGED <<gs_untracked, gs_renames, gs_rev_renames>>
        ELSE IF m2.ok
        THEN LET op == Group(line, m2, 1)
                 oldfile == Group(line, m2, 2)
                 newfile == Group(line, m2, 3)
             IN IF \/ op # "R"
                   \/ DictHas(gs_modifications, oldfile)
                   \/ DictHas(gs_renames, oldfile)
                   \/ DictHas(gs_modifications, newfile)
                THEN GsError
                ELSE /\ continue
                     /\ gs_renames' = DictSet(gs_renames, oldfile, newfile)
                     /\ gs_rev_renames' = DictSet(gs_rev_renames, newfile, oldfile)
                     /\ gs_modifications' = DictSet(gs_modifications, newfile, "M")
                     /\ gs_untracked' = gs_untracked
        ELSE GsError
  /\ gs_branch' = gs_branch
  /\ GsFrame

\* the loop is over: the return statement is in the body of the loop, behind
\* the last u.error, and the function ends without one
GsFallOff ==
  /\ gs_pc = "loop"
  /\ gs_idx > Len(gs_lines)
  /\ gs_pc' = "returned"
  /\ gs_ret' = <<>>
  /\ UNCHANGED <<gs_idx, gs_branch, gs_tables>>
  /\ GsFrame

(***************************************************************************)
(* StringTable.py.                                                         *)
(***************************************************************************)

\* python truth of self.stringdict.get(s): None and 0 are false
Truthy(d, s) == DictHas(d, s) /\ DictGet(d, s) # 0

\* query(s)
query(d, s) == IF Truthy(d, s) THEN DictGet(d, s) ELSE -1

\* lookup(s): the ID returned, and the table and dict after the call
lookup(tab, d, s) ==
  IF Truthy(d, s) THEN [ret |-> DictGet(d, s), tab |-> tab, dict |-> d]
  ELSE [ret |-> Len(tab), tab |-> Append(tab, s), dict |-> DictSet(d, s, Len(tab))]

\* StringTable(name): lookup("") on the empty table
NewTable == lookup(<<>>, <<>>, "")

\* the strings of the calls
Strings == {"", "a", "b", "c"}

\* what a call leaves alone
StFrame == UNCHANGED <<flag_debug, dwarfvars, filtvars, dcvars, tovars, gsvars, st_pc>>

\* a call of query
StQuery ==
  /\ st_pc = "ready"
  /\ \E s \in Strings :
       st_call' = [op |-> "query", s |-> s, ret |-> query(stringdict, s)]
  /\ st_before' = [tab |-> stringtab, dict |-> stringdict]
  /\ UNCHANGED <<stringtab, stringdict>>
  /\ StFrame

\* a call of lookup
StLookup ==
  /\ st_pc = "ready"
  /\ Len(stringtab) < MaxStrings
  /\ \E s \in Strings :
       LET r == lookup(stringtab, stringdict, s)
       IN /\ st_call' = [op |-> "lookup", s |-> s, ret |-> r.ret]
          /\ stringtab' = r.tab
          /\ stringdict' = r.dict
  /\ st_before' = [tab |-> stringtab, dict |-> stringdict]
  /\ StFrame

(***************************************************************************)
(* The text objdump prints, from which the inputs of a run are drawn.      *)
(***************************************************************************)

\* " <1><2d>: Abbrev Number: 2 (DW_TAG_subprogram)"
DieStartLine(depth, offtext, abbrev, tag) ==
  " <" \o depth \o "><" \o offtext \o ">: Abbrev Number: " \o abbrev
  \o " (" \o tag \o ")"

\* "    <2e>   DW_AT_name        : main"
AttrLine(offtext, attr, val) ==
  "    <" \o offtext \o ">   " \o attr \o "   : " \o val

\* "    <2e>   DW_AT_name: main  " (no blank before the colon, trailing blanks)
AttrLineTight(offtext, attr, val) ==
  "    <" \o offtext \o ">   " \o attr \o ": " \o val \o "  "

\* a DIE of a dump: its offset (number and printed form), abbrev, tag and
\* attribute (name, value) pairs, and how its attribute lines are spaced
Die(offnum, offtext, abbrev, tag, attrs, tight) ==
  [kind |-> "die", off |-> offnum, offtext |-> offtext, abbrev |-> abbrev,
   tag |-> tag, attrs |-> attrs, tight |-> tight, text |-> ""]

\* a line of a dump that is neither a DIE start nor an attribute line
Raw(text) ==
  [kind |-> "raw", off |-> -1, offtext |-> "", abbrev |-> "", tag |-> "",
   attrs |-> <<>>, tight |-> FALSE, text |-> text]

\* an attribute line on its own (after a null DIE, or before any DIE)
Attr(offtext, attr, val) ==
  [kind |-> "attr", off |-> -1, offtext |-> offtext, abbrev |-> "", tag |-> "",
   attrs |-> <<<<attr, val>>>>, tight |-> FALSE, text |-> ""]

\* the attribute lines of a chunk
AttrLines(c) ==
  [i \in 1..Len(c.attrs) |->
     IF c.tight THEN AttrLineTight(c.offtext, c.attrs[i][1], c.attrs[i][2])
     ELSE AttrLine(c.offtext, c.attrs[i][1], c.attrs[i][2])]

\* the lines objdump prints for one chunk
ChunkLines(c) ==
  CASE c.kind = "raw" -> <<c.text>>
    [] c.kind = "attr" -> AttrLines(c)
    [] c.kind = "die" ->
         <<DieStartLine("1", c.offtext, c.abbrev, c.tag)>> \o AttrLines(c)

RECURSIVE Render(_)
Render(chunks) ==
  IF Len(chunks) = 0 THEN <<>>
  ELSE ChunkLines(chunks[1]) \o Render(Tail(chunks))

\* the header objdump prints before the DIEs of a unit
UnitHeader == Raw("  Compilation Unit @ offset 0x0:")

\* the DIE of compile unit a.c at offset 0xb
UnitDie ==
  Die(11, "b", "1", "DW_TAG_compile_unit", <<<<"DW_AT_name", "a.c">>>>, FALSE)

\* a null DIE, which closes a list of children
NullDie == Raw(" <2><4a>: Abbrev Number: 0")

\* objdump --dwarf=info --dwarf-depth=1 of a load module with the unit a.c
DepthOneDump == Render(<<UnitHeader, UnitDie>>)

\* objdump --dwarf=Ranges: two lists, at offsets 0x40 and 0x60
RangeDumpTwoLists ==
  <<"Contents of the .debug_ranges section:",
    "    Offset   Begin    End",
    "    00000000 ffffffffffffffff 0000000000001000 (base address)",
    "    00000040 0000000000001000 0000000000001010",
    "    00000040 0000000000001020 0000000000001030",
    "    00000040 <End of list>",
    "    00000060 0000000000002000 0000000000002010",
    "    00000060 <End of list>">>

\* a dump whose only list, at 0x40, holds a pair with start > end
RangeDumpDescending ==
  <<"    00000040 0000000000001030 0000000000001020",
    "    00000040 <End of list>">>

\* a dump whose list at 0x60 is never closed
RangeDumpUnclosed ==
  <<"    00000040 0000000000001000 0000000000001010",
    "    00000040 <End of list>",
    "    00000060 0000000000002000 0000000000002010">>

RangeDumps == {RangeDumpTwoLists, RangeDumpDescending, RangeDumpUnclosed}

\* a dump whose list of 0x40 is closed by a line with the offset 0x60
RangeDumpEndElsewhere ==
  <<"    00000000 ffffffffffffffff 0000000000001000 (base address)",
    "    00000040 0000000000001000 0000000000001010",
    "    00000040 0000000000001020 0000000000001030",
    "    00000060 <End of list>">>

\* a dump with three pairs in the list at 0x40
RangeDumpThreePairs ==
  <<"Contents of the .debug_ranges section:",
    "    00000000 ffffffffffffffff 0000000000001000 (base address)",
    "    00000040 0000000000001000 0000000000001010",
    "    00000040 0000000000001020 0000000000001030",
    "    00000040 0000000000001040 0000000000001050",
    "    00000040 <End of list>">>

\* a dump whose list at 0x40 has a base address entry between two pairs
RangeDumpBaseInside ==
  <<"    00000040 0000000000001000 0000000000001010",
    "    00000000 ffffffffffffffff 0000000000001000 (base address)",
    "    00000040 0000000000001020 0000000000001030",
    "    00000040 <End of list>">>

\* the dumps taken whole
WholeRangeDumps ==
  {RangeDumpTwoLists, RangeDumpUnclosed, RangeDumpEndElsewhere, RangeDumpThreePairs,
   RangeDumpBaseInside}

\* the lines the generated range dumps are made of
RangeLinePool ==
  {"    00000000 ffffffffffffffff 0000000000001000 (base address)",
   "    00000040 0000000000001000 0000000000001010",
   "    00000060 0000000000002000 0000000000002010",
   "    00000040 <End of list>",
   "    00000060 <End of list>"}

\* lines of objdump -dl
AsmLineSet ==
  {"  1000: push rbp", "  1010: nop", "  1020: ret", "main():",
   "0000000000001000 <main>:", "  zz: nop"}

(***************************************************************************)
(* Bounds of the explored inputs.                                          *)
(***************************************************************************)

\* DIEs after the unit DIE in a dump with varied PC attributes
MaxDies == 2

\* pieces of a generated input of normalize-dwarf-objdump
MaxFiltChunks == 2

\* compilation units of a generated unit dump
MaxUnits == 3

\* lines of a generated disassembly
MaxAsm == 2

\* chunks (DIEs and other lines) of a dump with varied layout
MaxChunks == 3

\* lines of a generated range dump
MaxRangeLines == 3

\* all sequences over S of length lo..hi
SeqsOf(S, lo, hi) == UNION {[1..k -> S] : k \in lo..hi}

\* the offsets of the generated DIEs, by position in the dump
Offsets ==
  <<[n |-> 16, t |-> "10"], [n |-> 32, t |-> "20"], [n |-> 48, t |-> "30"],
    [n |-> 64, t |-> "40"]>>

DieNames == <<"main", "foo", "bar", "baz">>

SubTag == "DW_TAG_subprogram"

InlTag == "DW_TAG_inlined_subroutine"

Pair(a, v) == <<<<a, v>>>>

Opt(a, v) == IF v = "" THEN <<>> ELSE Pair(a, v)

\* the DIE at position k with name (TRUE: its own), abstract_origin, low_pc,
\* high_pc and ranges attributes; "" leaves an attribute out
AttrDie(k, tag, named, origin_, low, high, ranges) ==
  Die(Offsets[k].n, Offsets[k].t, "3", tag,
      (IF named THEN Pair("DW_AT_name", DieNames[k]) ELSE <<>>)
      \o Opt("DW_AT_abstract_origin", origin_)
      \o Opt("DW_AT_low_pc", low) \o Opt("DW_AT_high_pc", high)
      \o Opt("DW_AT_ranges", ranges), FALSE)

\* the dumps of the annotation inputs: no interval; main; main and foo sharing
\* the boundary 0x1020; main and a DIE with a range list
AnnotateDumps ==
  {<<UnitHeader, UnitDie>>,
   <<UnitHeader, UnitDie, AttrDie(1, SubTag, TRUE, "", "0x1000", "0x1020", "")>>,
   <<UnitHeader, UnitDie, AttrDie(1, SubTag, TRUE, "", "0x1000", "0x1020", ""),
     AttrDie(2, InlTag, TRUE, "", "0x1020", "0x1020", "")>>,
   <<UnitHeader, UnitDie, AttrDie(1, SubTag, TRUE, "", "0x1000", "0x1020", ""),
     AttrDie(2, InlTag, TRUE, "", "", "", "0x40")>>}

\* (low_pc, high_pc, ranges) of the DIEs of the collection inputs
CollectShapes ==
  {<<"0x1020", "0x1000", "">>, <<"0x1000", "0x1020", "0x40">>,
   <<"0x1000", "", "0x40">>, <<"", "", "0x40">>, <<"", "", "0x60">>,
   <<"", "0x1020", "">>, <<"4096", "0x1020", "0x60">>}

\* (has a name, abstract_origin) of the DIEs of the name inputs, by position
NameShapes ==
  <<{TRUE, FALSE} \X {"", "<0x10>", "<0x20>", "<0x50>", "main"},
    {TRUE, FALSE} \X {"", "<0x10>", "<0x30>"},
    {TRUE, FALSE} \X {"", "<0x20>", "<0x30>"}>>

\* the DW_AT_ranges values of the DIEs of the range inputs
RangeRefShapes == {<<"0x40">>, <<"0x40", "0x60">>, <<"0x60", "0x60">>}

\* (low_pc, high_pc, ranges) of the DIEs of the inputs with digits that are
\* not base 16 after 0x
FaultShapes ==
  {<<"0x1000", "0x1020", "">>, <<"0xzz", "0x1020", "">>,
   <<"0x1000", "<0x10g0>", "">>, <<"", "", "0xq0">>, <<"", "", "0x40">>}

\* the -W arguments: the unit of the dump, a unit the dump does not have, and
\* "." for all units
UnitFlags == {"a.c", "b.c", "."}

\* the disassemblies of the inputs with varied -W
FaultAsm ==
  {<<"  1000: push rbp", "main():", "  1020: ret">>,
   <<"  1020: ret", "  1010: nop">>}

\* chunks of the dumps with varied layout
LayoutChunks ==
  {NullDie,
   Attr("2f", "DW_AT_decl_line", "7"),
   Die(45, "2d", "2", SubTag,
       Pair("DW_AT_name", "main") \o Pair("DW_AT_low_pc", "0x1000")
       \o Pair("DW_AT_high_pc", "0x1020"), FALSE),
   Die(164, "0A4", "12", InlTag,
       Pair("DW_AT_abstract_origin", "<0x2d>") \o Pair("DW_AT_ranges", "0x40"), TRUE),
   Die(45, "2d", "5", "DW_TAG_variable", <<>>, FALSE),
   Die(80, "50", "7", "DW_TAG_base_type",
       Pair("DW_AT_name", "int") \o Pair("DW_AT_name", "long"), FALSE)}

(***************************************************************************)
(* Initial states: the inputs of one run, and dodwarf at its first line.   *)
(***************************************************************************)

\* dump-compunit-dwarf.py at its start, with the command line argv and the
\* unit dump lines; at "idle" it is not run
DcStart(at, argv, lines) ==
  /\ dc_argv = argv
  /\ flag_offset_to_find = NoneKey
  /\ flag_name_to_find = ""
  /\ dc_lines = lines
  /\ dc_idx = 1
  /\ dc_units = 0
  /\ dc_lo = -1
  /\ dc_hi = -1
  /\ dc_binoff = 0
  /\ dc_maxoff = -1
  /\ dc_selectoff = -1
  /\ dc_found = FALSE
  /\ dc_cmd = ""
  /\ dc_err = <<>>
  /\ dc_pc = at
  /\ dc_failure = ""
  /\ dc_read = 0
  /\ dc_ncomps = 0
  /\ dc_out = <<>>

\* the load module of the run: its full dump, and the objdump that prints it
DcModule(full, quiet) ==
  /\ dc_full = full
  /\ dc_quiet = quiet

DcIdle == DcStart("idle", [x |-> "", n |-> ""], <<>>) /\ DcModule(<<>>, FALSE)

\* docmdwithtimeout at its call, for a command and a timeout
ToStart(at, cmd, secs) ==
  /\ to_cmd = cmd
  /\ timeout_duration = secs
  /\ to_pc = at
  /\ to_handler = "prev"
  /\ to_alarm = 0
  /\ to_tripped = FALSE
  /\ to_fired = FALSE
  /\ to_ran = 0
  /\ to_clock = 0
  /\ to_result = NoneKey

ToIdle == ToStart("idle", [rc |-> 0, secs |-> 0], 0)

\* get_git_status at its call, with the lines of git status -sb
GsStart(at, lines) ==
  /\ gs_lines = lines
  /\ gs_idx = 1
  /\ gs_branch = ""
  /\ gs_modifications = <<>>
  /\ gs_untracked = <<>>
  /\ gs_renames = <<>>
  /\ gs_rev_renames = <<>>
  /\ gs_pc = at
  /\ gs_ret = <<>>

\* a StringTable after its construction
StStart(at) ==
  /\ stringtab = NewTable.tab
  /\ stringdict = NewTable.dict
  /\ st_call = [op |-> "", s |-> "", ret |-> 0]
  /\ st_before = [tab |-> <<>>, dict |-> <<>>]
  /\ st_pc = at

\* the functions modelled on their own are not called
UtilIdle == ToIdle /\ GsStart("idle", <<>>) /\ StStart("idle")

\* normalize-dwarf-objdump.py is not run
FiltIdle ==
  /\ flag_compunits = {}
  /\ flag_annotate_abstract = TRUE
  /\ flag_normalize = TRUE
  /\ flag_strip_offsets = FALSE
  /\ flag_strip_pcinfo = FALSE
  /\ inf = <<>>
  /\ infpos = 1
  /\ linebuf = ""
  /\ linebuffered = FALSE
  /\ readlog = <<>>
  /\ dielines = <<>>
  /\ indie = FALSE
  /\ diepos = 0
  /\ outf = <<>>
  /\ outsrc = <<>>
  /\ emitted = <<>>
  /\ diestart = <<>>
  /\ diename = <<>>
  /\ filt_origin = ""
  /\ filtered = FALSE
  /\ untracked_dwrefs = <<>>
  /\ fpc = "idle"
  /\ ffailure = ""

\* disassemble-function.py is not run
DwarfIdle ==
  /\ flag_dwarf_cu = ""
  /\ lines1 = <<>>
  /\ given = <<>>
  /\ lines2 = <<>>
  /\ rnglines = <<>>
  /\ asmlines = <<>>
  /\ pc = "idle"
  /\ idx = 1
  /\ dies = <<>>
  /\ curdieoff = NoneKey
  /\ cu_offset = ""
  /\ results = <<>>
  /\ origin = <<>>
  /\ lookups = <<>>
  /\ rlrefs = <<>>
  /\ refranges = <<>>
  /\ inrange = FALSE
  /\ crange = <<>>
  /\ off = -1
  /\ unmatched = <<>>
  /\ ranged_items = <<>>
  /\ suffixes = <<>>
  /\ out = <<>>
  /\ log = <<>>
  /\ failure = ""

StartVerbose(level, flag, chunks, rng, asm) ==
  /\ flag_debug = level
  /\ flag_dwarf_cu = flag
  /\ lines1 = DepthOneDump
  /\ given = chunks
  /\ lines2 = Render(chunks)
  /\ rnglines = rng
  /\ asmlines = asm
  /\ pc = "read1"
  /\ idx = 1
  /\ dies = <<>>
  /\ curdieoff = NoneKey
  /\ cu_offset = ""
  /\ results = <<>>
  /\ origin = <<>>
  /\ lookups = <<>>
  /\ rlrefs = <<>>
  /\ refranges = <<>>
  /\ inrange = FALSE
  /\ crange = <<>>
  /\ off = -1
  /\ unmatched = <<>>
  /\ ranged_items = <<>>
  /\ suffixes = <<>>
  /\ out = <<>>
  /\ log = verbose(level, 1, <<"inspecting DWARF for " \o LoadModule>>)
  /\ failure = ""
  /\ FiltIdle
  /\ DcIdle
  /\ UtilIdle

\* a run at the default verbosity
Start(flag, chunks, rng, asm) == StartVerbose(0, flag, chunks, rng, asm)

\* pieces of an objdump --dwarf=info dump: the compile units a.c and b.c, a
\* compile unit without DW_AT_name, the subprogram main, an inlined
\* subroutine whose abstract origin is main, a null DIE, a unit header
FiltChunks ==
  {<<" <0><b>: Abbrev Number: 1 (DW_TAG_compile_unit)",
     "    <c>   DW_AT_name        : a.c">>,
   <<" <0><5b>: Abbrev Number: 1 (DW_TAG_compile_unit)",
     "    <5c>   DW_AT_name        : b.c">>,
   <<" <0><9b>: Abbrev Number: 1 (DW_TAG_compile_unit)",
     "    <9c>   DW_AT_language    : 12">>,
   <<" <1><2d>: Abbrev Number: 2 (DW_TAG_subprogram)",
     "    <2e>   DW_AT_name        : main",
     "    <32>   DW_AT_low_pc      : 0x1000">>,
   <<" <2><40>: Abbrev Number: 3 (DW_TAG_inlined_subroutine)",
     "    <41>   DW_AT_abstract_origin: <0x2d>">>,
   <<" <2><4a>: Abbrev Number: 0">>,
   <<"  Compilation Unit @ offset 0x0:">>}

\* the lines of the pieces, one piece after the other
RECURSIVE Flatten(_)
Flatten(pieces) ==
  IF Len(pieces) = 0 THEN <<>> ELSE pieces[1] \o Flatten(Tail(pieces))

\* a dump of two units: a.c with main and the inlined subroutine, b.c with foo
FiltTwoUnits ==
  <<"  Compilation Unit @ offset 0x0:",
    " <0><b>: Abbrev Number: 1 (DW_TAG_compile_unit)",
    "    <c>   DW_AT_name        : a.c",
    " <1><2d>: Abbrev Number: 2 (DW_TAG_subprogram)",
    "    <2e>   DW_AT_name        : main",
    "    <32>   DW_AT_low_pc      : 0x1000",
    " <2><40>: Abbrev Number: 3 (DW_TAG_inlined_subroutine)",
    "    <41>   DW_AT_abstract_origin: <0x2d>",
    "    <45>   DW_AT_type        : <0x77>",
    " <2><4a>: Abbrev Number: 0",
    "  Compilation Unit @ offset 0x4f:",
    " <0><5b>: Abbrev Number: 1 (DW_TAG_compile_unit)",
    "    <5c>   DW_AT_name        : b.c",
    " <1><6d>: Abbrev Number: 2 (DW_TAG_subprogram)",
    "    <6e>   DW_AT_name        : foo",
    " <1><7a>: Abbrev Number: 0">>

\* the command lines: no option; -u a.c; -A -N -S; -u a.c -u b.c -A -P
FiltOptions ==
  {[u |-> {}, A |-> FALSE, N |-> FALSE, S |-> FALSE, P |-> FALSE],
   [u |-> {"a.c"}, A |-> FALSE, N |-> FALSE, S |-> FALSE, P |-> FALSE],
   [u |-> {}, A |-> TRUE, N |-> TRUE, S |-> TRUE, P |-> FALSE],
   [u |-> {"a.c", "b.c"}, A |-> TRUE, N |-> FALSE, S |-> FALSE, P |-> TRUE]}

\* parse_args has set the flags and perform_filt is at its first read_die
StartFilt(opts, lines) ==
  /\ flag_debug = 0
  /\ DwarfIdle
  /\ DcIdle
  /\ UtilIdle
  /\ flag_compunits = opts.u
  /\ flag_annotate_abstract = ~opts.A
  /\ flag_normalize = ~opts.N
  /\ flag_strip_offsets = opts.S
  /\ flag_strip_pcinfo = opts.P
  /\ inf = lines
  /\ infpos = 1
  /\ linebuf = ""
  /\ linebuffered = FALSE
  /\ readlog = <<>>
  /\ dielines = <<>>
  /\ indie = FALSE
  /\ diepos = 0
  /\ outf = <<>>
  /\ outsrc = <<>>
  /\ emitted = <<>>
  /\ diestart = <<>>
  /\ diename = <<>>
  /\ filt_origin = ""
  /\ filtered = FALSE
  /\ untracked_dwrefs = <<>>
  /\ fpc = "read"
  /\ ffailure = ""

\* a dump with a DIE whose offset is not a hexadecimal number
FiltBadOffset ==
  <<"  Compilation Unit @ offset 0x0:",
    " <0><b>: Abbrev Number: 1 (DW_TAG_compile_unit)",
    "    <c>   DW_AT_name        : a.c",
    " <1><zz>: Abbrev Number: 2 (DW_TAG_subprogram)",
    "    <2e>   DW_AT_name        : main",
    "  Compilation Unit @ offset 0x4f:">>

\* a dump with a DIE whose tag objdump has no name for
FiltUserTag ==
  <<"  Compilation Unit @ offset 0x0:",
    " <0><b>: Abbrev Number: 1 (DW_TAG_compile_unit)",
    "    <c>   DW_AT_name        : a.c",
    " <1><2d>: Abbrev Number: 5 (User TAG value: 0x4109)",
    "    <2e>   DW_AT_low_pc      : 0x1000",
    "  Compilation Unit @ offset 0x4f:">>

\* varied options over dumps put together from pieces, and over the dump of
\* two units and the dumps with a DIE that perform_filt cannot process
InitFilt ==
  \E opts \in FiltOptions :
    \/ \E pieces \in SeqsOf(FiltChunks, 1, MaxFiltChunks) :
         StartFilt(opts, Flatten(pieces))
    \/ StartFilt(opts, FiltTwoUnits)
    \/ \E lines \in {FiltBadOffset, FiltUserTag} : StartFilt(opts, lines)

\* the compilation units of the generated unit dumps, in the order of the
\* dump: offset of the unit, offset of its DIE, name
DumpUnits ==
  <<[at |-> "0", die |-> "b", name |-> "a.c", sub |-> "2d"],
    [at |-> "4f", die |-> "5a", name |-> "b.c", sub |-> "7c"],
    [at |-> "9a", die |-> "a5", name |-> "c.c", sub |-> "c7"],
    [at |-> "e5", die |-> "f0", name |-> "d.c", sub |-> "112"],
    [at |-> "130", die |-> "13b", name |-> "e.c", sub |-> "15d"]>>

\* objdump --dwarf=info --dwarf-depth=1 of a load module with the first n units
RECURSIVE UnitDump(_)
UnitDump(n) ==
  IF n = 0 THEN <<"Contents of the .debug_info section:">>
  ELSE UnitDump(n - 1)
       \o <<"  Compilation Unit @ offset 0x" \o DumpUnits[n].at \o ":",
            " <0><" \o DumpUnits[n].die \o ">: Abbrev Number: 1 (DW_TAG_compile_unit)",
            "    <" \o DumpUnits[n].die \o ">   DW_AT_name        : "
            \o DumpUnits[n].name>>

\* objdump --dwarf=info of the same load module: each unit with its header
\* fields and with a subprogram DIE below the unit DIE
RECURSIVE FullDump(_)
FullDump(n) ==
  IF n = 0 THEN <<"Contents of the .debug_info section:">>
  ELSE FullDump(n - 1)
       \o <<"  Compilation Unit @ offset 0x" \o DumpUnits[n].at \o ":",
            "   Abbrev Offset: 0x" \o DumpUnits[n].at,
            " <0><" \o DumpUnits[n].die \o ">: Abbrev Number: 1 (DW_TAG_compile_unit)",
            "    <" \o DumpUnits[n].die \o ">   DW_AT_name        : "
            \o DumpUnits[n].name,
            " <1><" \o DumpUnits[n].sub \o ">: Abbrev Number: 2 (DW_TAG_subprogram)",
            "    <" \o DumpUnits[n].sub \o ">   DW_AT_name        : f">>

\* the arguments of -x and of -n on the command lines
OffsetArgs ==
  {"0x0", "0x1", "0xb", "0x4e", "0x4f", "0x5a", "0x9a", "0xff", "0x200", "0xzz", "79"}

NameArgs == {"a.c", "b.c", "zz.c"}

\* varied -x and -n arguments over dumps of 0 to MaxUnits units
InitDump ==
  \E n \in 0..MaxUnits :
    \E argv \in {[x |-> a, n |-> ""] : a \in OffsetArgs}
               \cup {[x |-> "", n |-> a] : a \in NameArgs}
               \cup {[x |-> "", n |-> ""], [x |-> "0x4f", n |-> "a.c"],
                     [x |-> "0x0", n |-> "b.c"]} :
      /\ flag_debug = 0
      /\ DwarfIdle
      /\ FiltIdle
      /\ UtilIdle
      /\ DcStart("args", argv, UnitDump(n))
      /\ \E quiet \in BOOLEAN : DcModule(FullDump(n), quiet)

\* varied disassembly lines over DIEs with PC ranges
InitAnnotate ==
  \E chunks \in AnnotateDumps, asm \in SeqsOf(AsmLineSet, 1, MaxAsm) :
    Start("a.c", chunks, RangeDumpTwoLists, asm)

\* varied low_pc / high_pc / ranges attributes and range dumps
InitCollect ==
  \E shapes \in SeqsOf(CollectShapes, 1, MaxDies), rng \in RangeDumps :
    Start("a.c",
          <<UnitHeader, UnitDie>>
          \o [k \in 1..Len(shapes) |->
                AttrDie(k, InlTag, TRUE, "", shapes[k][1], shapes[k][2], shapes[k][3])],
          rng, <<"  1000: push rbp", "  1020: ret">>)

\* varied DW_AT_name / DW_AT_abstract_origin attributes; the first two DIEs
\* have a PC range, the third a range list
InitNames ==
  \E s1 \in NameShapes[1], s2 \in NameShapes[2], s3 \in NameShapes[3] :
    Start("a.c",
          <<UnitHeader, UnitDie,
            AttrDie(1, InlTag, s1[1], s1[2], "0x1000", "0x1020", ""),
            AttrDie(2, InlTag, s2[1], s2[2], "0x1000", "0x1020", ""),
            AttrDie(3, SubTag, s3[1], s3[2], "", "", "0x40")>>,
          RangeDumpTwoLists, <<"  1000: push rbp">>)

\* varied layout of the dump
InitLayout ==
  \E chunks \in SeqsOf(LayoutChunks, 1, MaxChunks) :
    Start("a.c", chunks, RangeDumpTwoLists, <<"  1000: push rbp">>)

\* the DIEs of a range input: each has a name and DW_AT_ranges only
RangeRefDies(refs) ==
  [k \in 1..Len(refs) |-> AttrDie(k, InlTag, TRUE, "", "", "", refs[k])]

\* varied range dumps: generated line by line at the default verbosity, and
\* whole dumps at the verbosity levels 0 and 1
InitRanges ==
  \/ \E refs \in RangeRefShapes, rng \in SeqsOf(RangeLinePool, 1, MaxRangeLines) :
       Start("a.c", RangeRefDies(refs), rng, <<"  1000: push rbp">>)
  \/ \E refs \in RangeRefShapes, rng \in WholeRangeDumps, level \in {0, 1} :
       StartVerbose(level, "a.c", RangeRefDies(refs), rng, <<"  1000: push rbp">>)

\* varied -W arguments over DIEs with well-formed and malformed hex values
InitFaults ==
  \E flag \in UnitFlags, shapes \in SeqsOf(FaultShapes, 1, MaxDies), asm \in FaultAsm :
    Start(flag,
          <<UnitHeader, UnitDie>>
          \o [k \in 1..Len(shapes) |->
                AttrDie(k, SubTag, TRUE, "", shapes[k][1], shapes[k][2], shapes[k][3])],
          RangeDumpTwoLists, asm)

\* commands that exit with status 0 or 1 ("/bin/true", "/bin/false",
\* "sleep n") under timeouts of up to MaxSeconds - 1 seconds
InitTimeout ==
  \E rc \in {0, 1}, secs \in 0..(MaxSeconds - 1), t \in 0..(MaxSeconds - 1) :
    /\ flag_debug = 0
    /\ DwarfIdle
    /\ FiltIdle
    /\ DcIdle
    /\ ToStart("start", [rc |-> rc, secs |-> secs], t)
    /\ GsStart("idle", <<>>)
    /\ StStart("idle")

\* first lines and status lines of git status -sb
BranchLines ==
  {"## master", "## master...origin/master [ahead 1]", "## HEAD (no branch)"}

StatusLines ==
  {"M  a.c", "A  b.c", "D  a.c", "?? n.c", "", "R  a.c -> c.c", "AM a.c.~1~",
   " M a.c", "MM b.c", "RM a.c -> b.c", "C  a.c -> d.c"}

\* a branch line followed by up to MaxStatus status lines
InitGitStatus ==
  \E b \in BranchLines, rest \in SeqsOf(StatusLines, 0, MaxStatus) :
    /\ flag_debug = 0
    /\ DwarfIdle
    /\ FiltIdle
    /\ DcIdle
    /\ ToIdle
    /\ GsStart("branch", <<b>> \o rest)
    /\ StStart("idle")

\* a new StringTable
InitStringTable ==
  /\ flag_debug = 0
  /\ DwarfIdle
  /\ FiltIdle
  /\ DcIdle
  /\ ToIdle
  /\ GsStart("idle", <<>>)
  /\ StStart("ready")

Init ==
  \/ InitAnnotate \/ InitCollect \/ InitNames \/ InitLayout \/ InitRanges
  \/ InitFaults \/ InitFilt \/ InitDump \/ InitTimeout \/ InitGitStatus
  \/ InitStringTable

\* disassemble-function.py
NextDwarf ==
  \/ ReadDieLine
  \/ FindCompileUnit
  \/ CollectDie
  \/ RangeLine
  \/ PostprocessRef
  \/ AnnotateLine

\* normalize-dwarf-objdump.py
NextFilt ==
  \/ ReadDieStep
  \/ FiltDie

\* dump-compunit-dwarf.py
NextDump ==
  \/ ParseArgs
  \/ ScanLine
  \/ SelectUnit
  \/ DumpLine

\* script_utils.docmdwithtimeout
NextTimeout ==
  \/ ToSetHandler
  \/ ToSetAlarm
  \/ ToEnterTry
  \/ ToTick
  \/ ToHandler
  \/ ToCommandDone
  \/ ToCancelAlarm
  \/ ToRestore
  \/ ToReturn

\* script_utils.get_git_status
NextGitStatus ==
  \/ GsBranchLine
  \/ GsStatusLine
  \/ GsFallOff

\* StringTable.py
NextStringTable ==
  \/ StQuery
  \/ StLookup

Next ==
  \/ NextDwarf \/ NextFilt \/ NextDump \/ NextTimeout \/ NextGitStatus
  \/ NextStringTable

\* every explored input
Spec == Init /\ [][Next]_vars

SpecAnnotate == InitAnnotate /\ [][NextDwarf]_vars

SpecCollect == InitCollect /\ [][NextDwarf]_vars

SpecNames == InitNames /\ [][NextDwarf]_vars

\* the steps at which dodwarf has a statement left to execute: NextDwarf is
\* enabled exactly there, and each of its steps moves pc or idx
DwarfRunning == {"read1", "findcu", "read2", "collect", "ranges", "post", "annot"}

\* the same runs, with the interpreter going on as long as dodwarf has a
\* statement left: WF_vars(NextDwarf), with ENABLED <<NextDwarf>>_vars
\* written as pc \in DwarfRunning
SpecNamesLive ==
  SpecNames /\ ([]<>(pc \notin DwarfRunning) \/ []<><<NextDwarf>>_vars)

SpecLayout == InitLayout /\ [][NextDwarf]_vars

SpecRanges == InitRanges /\ [][NextDwarf]_vars

SpecFaults == InitFaults /\ [][NextDwarf]_vars

SpecFilt == InitFilt /\ [][NextFilt]_vars

SpecDump == InitDump /\ [][NextDump]_vars

SpecTimeout == InitTimeout /\ [][NextTimeout]_vars

SpecGitStatus == InitGitStatus /\ [][NextGitStatus]_vars

SpecStringTable == InitStringTable /\ [][NextStringTable]_vars

(***************************************************************************)
(* Properties of the annotation loop (SpecAnnotate).                       *)
(***************************************************************************)

\* the address at the head of a generated disassembly line, -1 when the line
\* has no address prefix or its token is not base 16
AddressOf(line) ==
  CASE line = "  1000: push rbp" -> 4096
    [] line = "  1010: nop" -> 4112
    [] line = "  1020: ret" -> 4128
    [] OTHER -> -1

NonEmpty(text) == text # ""

\* the entries the intervals call for at address a, in interval-list order,
\* begin before end for one interval
ExpectedEntries(items, a) ==
  SelectSeq([k \in 1..(2 * Len(items)) |->
               IF k % 2 = 1
               THEN IF items[(k + 1) \div 2][2] = a
                    THEN "begin " \o items[(k + 1) \div 2][1] ELSE ""
               ELSE IF items[k \div 2][3] = a
                    THEN "end " \o items[k \div 2][1] ELSE ""],
            NonEmpty)

\* the position of the first c in s at or after i, Len(s) + 1 when there is none
RECURSIVE UpTo(_, _, _)
UpTo(s, i, c) ==
  IF i > Len(s) \/ Char(s, i) = c THEN i ELSE UpTo(s, i + 1, c)

\* the fields of s between the separators c
RECURSIVE Fields(_, _)
Fields(s, c) ==
  IF UpTo(s, 1, c) > Len(s) THEN <<s>>
  ELSE <<Sub(s, 1, UpTo(s, 1, c) - 1)>>
       \o Fields(Sub(s, UpTo(s, 1, c) + 1, Len(s)), c)

\* the entries written after " // " on output line i, without the blanks
\* around them; none when nothing follows the input line
WrittenEntries(i) ==
  IF Len(out[i]) <= Len(asmlines[i]) + 4 THEN <<>>
  ELSE [k \in 1..Len(Fields(Sub(out[i], Len(asmlines[i]) + 5, Len(out[i])), ",")) |->
          Strip(Fields(Sub(out[i], Len(asmlines[i]) + 5, Len(out[i])), ",")[k])]

\* C1: with the one interval ("main", 0x1000, 0x1020), the line
\* "  1000: push rbp" is written exactly as "  1000: push rbp // begin main"
\* and the line at address 1020 as the input line followed by exactly
\* " // end main", one space on each side of "//".
C1_ExactAnnotation ==
  \A i \in 1..Len(out) :
    ranged_items = <<<<"main", 4096, 4128>>>> =>
      /\ asmlines[i] = "  1000: push rbp" => out[i] = "  1000: push rbp // begin main"
      /\ asmlines[i] = "  1020: ret" => out[i] = asmlines[i] \o " // end main"

\* C2: a line whose leading token decodes to the address A is written as the
\* line, then, when an interval has low = A or high = A, " // " and the
\* comma-separated entries: one "begin <name>" per interval with low = A, one
\* "end <name>" per interval with high = A, no other entry, in interval-list
\* order with begin before end of the same interval (so both for low = high = A).
C2_EntriesPerBoundary ==
  \A i \in 1..Len(out) :
    AddressOf(asmlines[i]) # -1 =>
      /\ Sub(out[i], 1, Len(asmlines[i])) = asmlines[i]
      /\ WrittenEntries(i) = ExpectedEntries(ranged_items, AddressOf(asmlines[i]))
      /\ Len(out[i]) > Len(asmlines[i]) =>
           /\ Sub(out[i], Len(asmlines[i]) + 1, Len(asmlines[i]) + 4) = " // "
           /\ ExpectedEntries(ranged_items, AddressOf(asmlines[i])) # <<>>

\* a line at 0x1020 was written where main ends and foo begins and ends
C2_Witness ==
  \E i \in 1..Len(out) :
    /\ AddressOf(asmlines[i]) = 4128
    /\ ExpectedEntries(ranged_items, 4128) = <<"end main", "begin foo", "end foo">>

\* whether some interval begins or ends at address a
Boundary(items, a) ==
  \E k \in 1..Len(items) : items[k][2] = a \/ items[k][3] = a

\* C3: a line without address prefix, with an address token that is not base
\* 16, or with an address that is neither low nor high of an interval is
\* written byte for byte as it was read.
C3_NoBoundaryUnchanged ==
  \A i \in 1..Len(out) :
    (AddressOf(asmlines[i]) = -1 \/ ~Boundary(ranged_items, AddressOf(asmlines[i])))
      => out[i] = asmlines[i]

\* with intervals collected, a line with the token zz and a line at an
\* address between the boundaries were written
C3_Witness ==
  /\ Len(ranged_items) > 0
  /\ \E i \in 1..Len(out) : asmlines[i] = "  zz: nop"
  /\ \E i \in 1..Len(out) : asmlines[i] = "  1010: nop"

(***************************************************************************)
(* Properties of collect_ranged_items (SpecCollect).                       *)
(***************************************************************************)

\* the DIEs the dump was printed from
GivenDies == {given[i] : i \in {j \in 1..Len(given) : given[j].kind = "die"}}

\* the value of attribute a among the (name, value) pairs, "" when it has none
AttrOf(pairs, a) ==
  IF \E i \in 1..Len(pairs) : pairs[i][1] = a
  THEN pairs[CHOOSE i \in 1..Len(pairs) :
               /\ pairs[i][1] = a
               /\ \A j \in 1..Len(pairs) : pairs[j][1] = a => j <= i][2]
  ELSE ""

\* the number a generated attribute value stands for, -1 when the attribute
\* is absent or its value is in neither the 0x.. nor the <0x..> form
Decoded(text) ==
  CASE text = "0x1000" -> 4096
    [] text = "0x1020" -> 4128
    [] text = "0x40" -> 64
    [] text = "0x60" -> 96
    [] OTHER -> -1

\* the entries of res that came from the DIE at offset o, in list order
RECURSIVE EntriesOf(_, _, _)
EntriesOf(res, org, o) ==
  IF Len(res) = 0 THEN <<>>
  ELSE (IF org[1] = o THEN <<res[1]>> ELSE <<>>)
       \o EntriesOf(Tail(res), Tail(org), o)

\* the pairs the range-list parser has for the list at offset o
PairsAt(o) == IF DictHas(refranges, o) THEN DictGet(refranges, o) ELSE <<>>

\* what one DIE is to contribute: (a) one interval when it has low_pc and
\* high_pc, its ranges ignored; (b) else one interval per pair of the range
\* list it references; (c) else nothing
Contribution(d) ==
  IF /\ Decoded(AttrOf(d.attrs, "DW_AT_low_pc")) # -1
     /\ Decoded(AttrOf(d.attrs, "DW_AT_high_pc")) # -1
  THEN <<<<AttrOf(d.attrs, "DW_AT_name"), Decoded(AttrOf(d.attrs, "DW_AT_low_pc")),
           Decoded(AttrOf(d.attrs, "DW_AT_high_pc"))>>>>
  ELSE IF Decoded(AttrOf(d.attrs, "DW_AT_ranges")) # -1
  THEN [j \in 1..Len(PairsAt(Decoded(AttrOf(d.attrs, "DW_AT_ranges")))) |->
          <<AttrOf(d.attrs, "DW_AT_name"),
            PairsAt(Decoded(AttrOf(d.attrs, "DW_AT_ranges")))[j][1],
            PairsAt(Decoded(AttrOf(d.attrs, "DW_AT_ranges")))[j][2]>>]
  ELSE <<>>

\* C4: once collect_ranged_items has returned, every DIE of the store is in
\* exactly one case: (a) with DW_AT_low_pc and DW_AT_high_pc (in hex or
\* hex-reference form) it contributes exactly one interval (name, low, high)
\* and its DW_AT_ranges is ignored; (b) otherwise with DW_AT_ranges it
\* contributes one interval per pair of the referenced range list, all with
\* the same name; (c) with neither it contributes no interval.
C4_Classification ==
  pc = "done" =>
    /\ failure = ""
    /\ \A d \in GivenDies : EntriesOf(ranged_items, origin, d.off) = Contribution(d)
    /\ \A i \in 1..Len(origin) : \E d \in GivenDies : d.off = origin[i]

\* a DIE with low_pc, high_pc and ranges gave one interval, and a DIE with
\* ranges only gave the two intervals of its list
C4_Witness ==
  /\ pc = "done"
  /\ \E d \in GivenDies :
       /\ AttrOf(d.attrs, "DW_AT_low_pc") # ""
       /\ AttrOf(d.attrs, "DW_AT_high_pc") # ""
       /\ AttrOf(d.attrs, "DW_AT_ranges") # ""
       /\ Len(EntriesOf(ranged_items, origin, d.off)) = 1
  /\ \E d \in GivenDies :
       /\ AttrOf(d.attrs, "DW_AT_low_pc") = ""
       /\ Len(EntriesOf(ranged_items, origin, d.off)) = 2

\* C5: every interval (name, low, high) of the list collect_ranged_items
\* returns has low <= high, also for a DIE whose DW_AT_high_pc is below its
\* DW_AT_low_pc and for a range pair with start > end.
C5_LowNotAboveHigh ==
  \A i \in 1..Len(ranged_items) : ranged_items[i][2] <= ranged_items[i][3]

(***************************************************************************)
(* Properties of collect_die_nametag (SpecNames).                          *)
(***************************************************************************)

\* the DIE the dump has at offset o
DieAt(o) == CHOOSE d \in GivenDies : d.off = o

\* the DIEs that d's DW_AT_abstract_origin references as <0xN>
Referenced(d) ==
  {g \in GivenDies :
     AttrOf(d.attrs, "DW_AT_abstract_origin") = "<0x" \o g.offtext \o ">"}

Named(d) == AttrOf(d.attrs, "DW_AT_name") # ""

\* C6: a DIE without DW_AT_name whose DW_AT_abstract_origin is <0xN>, with a
\* DIE at offset N in the store that has DW_AT_name V, gets the name V,
\* whether N is below or above the offset of the referencing DIE.
C6_SingleHop ==
  \A i \in 1..Len(results) :
    \A g \in Referenced(DieAt(origin[i])) :
      (~Named(DieAt(origin[i])) /\ Named(g))
        => results[i][1] = AttrOf(g.attrs, "DW_AT_name")

\* intervals were named through a reference to a higher offset and through a
\* reference to a lower offset
C6_Witness ==
  /\ \E i \in 1..Len(results) :
       \E g \in Referenced(DieAt(origin[i])) :
         ~Named(DieAt(origin[i])) /\ Named(g) /\ g.off > origin[i]
  /\ \E i \in 1..Len(results) :
       \E g \in Referenced(DieAt(origin[i])) :
         ~Named(DieAt(origin[i])) /\ Named(g) /\ g.off < origin[i]

\* C7: for a chain A -> B -> C where A and B have no DW_AT_name, A's
\* DW_AT_abstract_origin references B, B's references C and C has DW_AT_name
\* V, the name resolved for A is V.
C7_Transitive ==
  \A i \in 1..Len(results) :
    \A b \in Referenced(DieAt(origin[i])) :
      \A c \in Referenced(b) :
        (~Named(DieAt(origin[i])) /\ ~Named(b) /\ Named(c))
          => results[i][1] = AttrOf(c.attrs, "DW_AT_name")

\* the name collect_die_nametag gives for the DIE at offset o of the store now
ResolvedNow(o) ==
  collect_die_nametag(expand_die(DictGet(dies, o)).attrs, o,
                      expand_die(DictGet(dies, o)).tag, dies)

\* C8: a DIE with DW_AT_name gets its own DW_AT_name, whatever its
\* DW_AT_abstract_origin is and whatever the referenced offset holds (a named
\* DIE, an unnamed one, nothing); and resolving a DIE again against the same
\* store gives the string that was recorded for it.
C8_OwnNameFirst ==
  /\ \A i \in 1..Len(results) :
       Named(DieAt(origin[i]))
         => results[i][1] = AttrOf(DieAt(origin[i]).attrs, "DW_AT_name")
  /\ pc = "done" => \A i \in 1..Len(results) : results[i][1] = ResolvedNow(origin[i])

\* the run is over with a named DIE that references a named DIE and a named
\* DIE that references an offset the store does not have
C8_Witness ==
  /\ pc = "done"
  /\ \E i \in 1..Len(results) :
       /\ Named(DieAt(origin[i]))
       /\ \E g \in Referenced(DieAt(origin[i])) : Named(g) /\ g.off # origin[i]
  /\ \E i \in 1..Len(results) :
       /\ Named(DieAt(origin[i]))
       /\ AttrOf(DieAt(origin[i]).attrs, "DW_AT_abstract_origin") = "<0x50>"

\* no name is reachable from d: it has no DW_AT_abstract_origin, or a value
\* that is not a hex reference, or a reference to an offset the store does
\* not have, or a reference to a DIE without DW_AT_name
NoNameReachable(d) ==
  /\ ~Named(d)
  /\ \/ AttrOf(d.attrs, "DW_AT_abstract_origin") = ""
     \/ AttrOf(d.attrs, "DW_AT_abstract_origin") = "main"
     \/ Referenced(d) = {}
     \/ \A g \in Referenced(d) : ~Named(g)

DiePositions == {p \in 1..Len(given) : given[p].kind = "die"}

\* the (name, value) pairs of the attribute lines from the DIE start at
\* position p up to the next DIE start
AttrsAfter(p) ==
  {given[p].attrs[k] : k \in 1..Len(given[p].attrs)}
  \cup {given[q].attrs[1] :
          q \in {r \in (p + 1)..Len(given) :
                   /\ given[r].kind = "attr"
                   /\ \A t \in (p + 1)..r : given[t].kind # "die"}}

\* the (name, value) pairs of an attribute map
MapPairs(attrs) == {<<attrs[k].key, attrs[k].val>> : k \in 1..Len(attrs)}

\* a well-formed dump: the DIE offsets are distinct, no attribute line comes
\* before the first DIE start, and no DIE has an attribute twice
WellFormed ==
  /\ \A p, q \in DiePositions : given[p].off = given[q].off => p = q
  /\ \A r \in 1..Len(given) :
       given[r].kind = "attr" => \E p \in DiePositions : p < r
  /\ \A p \in DiePositions :
       \A x, y \in AttrsAfter(p) : x[1] = y[1] => x = y

\* C10: for a well-formed dump, read_die_chain leaves exactly one store entry
\* per DIE start line, keyed by the number its hex offset stands for, and
\* expand_die on that entry gives the abbrev number and the tag of the start
\* line and a map with exactly the name/value pairs of the attribute lines
\* that follow it up to the next DIE start line.
C10_RoundTrip ==
  (WellFormed /\ pc = "collect" /\ idx = 1) =>
    /\ Len(dies) = Cardinality(DiePositions)
    /\ \A p \in DiePositions :
         /\ DictHas(dies, given[p].off)
         /\ expand_die(DictGet(dies, given[p].off)).ok
         /\ expand_die(DictGet(dies, given[p].off)).abbrev = given[p].abbrev
         /\ expand_die(DictGet(dies, given[p].off)).tag = given[p].tag
         /\ MapPairs(expand_die(DictGet(dies, given[p].off)).attrs) = AttrsAfter(p)

\* read_die_chain has returned the store of a well-formed dump with two DIEs,
\* one of them at an offset printed with upper-case digits, and an attribute
\* line after a null DIE
C10_Witness ==
  /\ WellFormed
  /\ pc = "collect"
  /\ idx = 1
  /\ Cardinality(DiePositions) = 2
  /\ \E p \in DiePositions : given[p].offtext = "0A4"
  /\ \E r \in 1..Len(given) : given[r].kind = "attr"

(***************************************************************************)
(* Properties of postprocess_rangerefs (SpecRanges).                       *)
(***************************************************************************)

\* what a line of a generated range dump is: a base-address marker, a
\* singleton (offset, start, end), an end-of-list marker (offset) or other text
RangeEntry(line) ==
  CASE line = "    00000000 ffffffffffffffff 0000000000001000 (base address)" ->
         [kind |-> "base", off |-> 0, st |-> 0, en |-> 0]
    [] line = "    00000040 0000000000001000 0000000000001010" ->
         [kind |-> "pair", off |-> 64, st |-> 4096, en |-> 4112]
    [] line = "    00000040 0000000000001020 0000000000001030" ->
         [kind |-> "pair", off |-> 64, st |-> 4128, en |-> 4144]
    [] line = "    00000040 0000000000001040 0000000000001050" ->
         [kind |-> "pair", off |-> 64, st |-> 4160, en |-> 4176]
    [] line = "    00000060 0000000000002000 0000000000002010" ->
         [kind |-> "pair", off |-> 96, st |-> 8192, en |-> 8208]
    [] line = "    00000040 <End of list>" ->
         [kind |-> "end", off |-> 64, st |-> 0, en |-> 0]
    [] line = "    00000060 <End of list>" ->
         [kind |-> "end", off |-> 96, st |-> 0, en |-> 0]
    [] OTHER -> [kind |-> "text", off |-> 0, st |-> 0, en |-> 0]

Entry(q) == RangeEntry(rnglines[q])

\* LastCloser(b): the last line up to b that closes a block, 0 when there is
\* none; an end-of-list line closes the block opened, since the block before
\* it was closed, by a base-address marker or a singleton
RECURSIVE LastCloser(_)
LastCloser(b) ==
  IF b = 0 THEN 0
  ELSE IF /\ Entry(b).kind = "end"
          /\ \E q \in (LastCloser(b - 1) + 1)..(b - 1) : Entry(q).kind \in {"base", "pair"}
       THEN b
       ELSE LastCloser(b - 1)

Closers == {b \in 1..Len(rnglines) : LastCloser(b) = b}

\* the singleton lines of the block that line b closes
BlockPairs(b) ==
  {q \in (LastCloser(b - 1) + 1)..(b - 1) : Entry(q).kind = "pair"}

\* the offset of the first singleton of the block that line b closes
Anchor(b) == Entry(CHOOSE q \in BlockPairs(b) : \A r \in BlockPairs(b) : q <= r).off

\* postprocess_rangerefs is past its loop over the lines of the dump
RangesParsed == pc \in {"post", "annot", "done"} /\ Len(rlrefs) > 0

\* C11: when an end-of-list line closes a block, the accumulated pairs are
\* committed under the anchor, the offset of the first singleton line of the
\* block; for the lines [base-address marker, 40 1000 1010, 40 1020 1030,
\* 60 <End of list>] the pairs [(0x1000, 0x1010), (0x1020, 0x1030)] are
\* stored under the key 0x40.
C11_CommitUnderAnchor ==
  RangesParsed =>
    /\ \A b \in Closers : BlockPairs(b) # {} => DictHas(refranges, Anchor(b))
    /\ (rnglines = RangeDumpEndElsewhere /\ DictHas(rlrefs, 64)) =>
         /\ DictHas(refranges, 64)
         /\ DictGet(refranges, 64) = <<<<4096, 4112>>, <<4128, 4144>>>>

\* the position in the dump of the k-th line among the positions S
RECURSIVE Ascending(_)
Ascending(S) ==
  IF S = {} THEN <<>>
  ELSE <<CHOOSE q \in S : \A r \in S : q <= r>>
       \o Ascending(S \ {CHOOSE q \in S : \A r \in S : q <= r})

\* line b closes a block of singletons that all carry the offset of line b,
\* and no later line closes a block under that offset
OneAnchorBlock(b) ==
  /\ b \in Closers
  /\ BlockPairs(b) # {}
  /\ \A q \in BlockPairs(b) : Entry(q).off = Entry(b).off
  /\ \A c \in Closers : Entry(c).off = Entry(b).off => c <= b

\* the intervals (name, start, end) of the singletons of the block line b closes
BlockIntervals(name, b) ==
  [k \in 1..Cardinality(BlockPairs(b)) |->
     <<name, Entry(Ascending(BlockPairs(b))[k]).st,
       Entry(Ascending(BlockPairs(b))[k]).en>>]

\* C12: for a block whose singleton lines carry the pairs p1, p2, p3 in
\* source order under one anchor, referenced by the DW_AT_ranges of a DIE and
\* closed by the end-of-list line of that anchor, the intervals emitted for
\* the DIE are exactly p1, p2, p3 in that order.
C12_OrderPreserved ==
  pc = "done" =>
    \A b \in 1..Len(rnglines) : \A d \in GivenDies :
      (OneAnchorBlock(b) /\ Decoded(AttrOf(d.attrs, "DW_AT_ranges")) = Entry(b).off)
        => EntriesOf(ranged_items, origin, d.off)
             = BlockIntervals(AttrOf(d.attrs, "DW_AT_name"), b)

\* the run is over with the three intervals of the list at 0x40 for a DIE
C12_Witness ==
  /\ pc = "done"
  /\ rnglines = RangeDumpThreePairs
  /\ \E d \in GivenDies : Len(EntriesOf(ranged_items, origin, d.off)) = 3

\* C13: after the lines of a range dump are parsed, the list stored under an
\* offset holds only pairs of singleton lines that carry that offset; pairs of
\* a block with another anchor are not in it.
C13_NoPollution ==
  RangesParsed =>
    \A k \in 1..Len(refranges) : \A j \in 1..Len(refranges[k].val) :
      \E q \in 1..Len(rnglines) :
        /\ Entry(q).kind = "pair"
        /\ Entry(q).off = refranges[k].key
        /\ <<Entry(q).st, Entry(q).en>> = refranges[k].val[j]

\* the DIEs whose DW_AT_ranges names an offset without entry in the map
Unresolved ==
  {d \in GivenDies :
     /\ Decoded(AttrOf(d.attrs, "DW_AT_ranges")) # -1
     /\ ~DictHas(refranges, Decoded(AttrOf(d.attrs, "DW_AT_ranges")))}

\* the diagnostics of a resolution miss written so far
MissDiagnostics ==
  {k \in 1..Len(log) : LitAt(log[k], 1, "could not locate offset")
                       \/ LitAt(log[k], 1, "warning: could not locate offset")}

\* C14: a DIE whose DW_AT_ranges names an offset without committed entry in
\* the range-list map (never seen, or never closed) contributes no interval
\* and a warning or diagnostic is written for it; collection goes on for the
\* other DIEs and the run does not end early.
C14_MissReported ==
  pc = "done" =>
    /\ failure = ""
    /\ \A d \in Unresolved : EntriesOf(ranged_items, origin, d.off) = <<>>
    /\ Unresolved # {} => MissDiagnostics # {}

(***************************************************************************)
(* Properties of dodwarf under malformed values and varied -W (SpecFaults). *)
(***************************************************************************)

\* a generated attribute value in 0x.. or <0x..> form whose digits are not
\* base 16
Malformed(text) == text \in {"0xzz", "<0x10g0>", "0xq0"}

\* the DIEs with a malformed DW_AT_low_pc, DW_AT_high_pc or DW_AT_ranges
MalformedDies ==
  {d \in GivenDies : \E a \in {"DW_AT_low_pc", "DW_AT_high_pc", "DW_AT_ranges"} :
                       Malformed(AttrOf(d.attrs, a))}

\* C15: a DW_AT_low_pc, DW_AT_high_pc or DW_AT_ranges value in 0x.. or <0x..>
\* form whose digits are not base 16 makes only its DIE be skipped, with a
\* warning: the pass is not aborted and the intervals of all the other DIEs
\* are collected.
C15_DecodeFailureLocal ==
  /\ failure # "ValueError"
  /\ (pc = "done" /\ cu_offset # "") =>
       /\ \A d \in GivenDies \ MalformedDies :
            EntriesOf(ranged_items, origin, d.off) = Contribution(d)
       /\ \A d \in MalformedDies : EntriesOf(ranged_items, origin, d.off) = <<>>
       /\ MalformedDies # {} => \E k \in 1..Len(log) : LitAt(log[k], 1, "warning: ")

\* the names of the compile units of the depth-one dump
UnitNames == {"a.c"}

\* the warnings that the unit named by -W was not located
UnitWarnings ==
  {k \in 1..Len(log) :
     log[k] = "warning: could not locate DWARF compilation unit " \o flag_dwarf_cu}

\* C16: when the dump has no compile unit of the name given with -W, dodwarf
\* writes a warning and still writes every disassembly line once, in input
\* order, without annotation.
C16_OutputAlways ==
  (pc = "done" /\ flag_dwarf_cu \notin UnitNames) =>
    /\ out = asmlines
    /\ Cardinality(UnitWarnings) = 1

\* a run for the absent unit b.c is over, on a dump whose DIE main has its
\* boundaries at two of the written lines
C16_Witness ==
  /\ pc = "done"
  /\ flag_dwarf_cu = "b.c"
  /\ Len(out) = 3
  /\ \E d \in GivenDies : Contribution(d) = <<<<"main", 4096, 4128>>>>

\* C17: with -W . the DWARF of all compile units is read and incorporated: the
\* DIEs with low_pc and high_pc give their intervals, and the disassembly
\* lines at a boundary of such an interval get begin/end annotations.
C17_AllUnits ==
  (pc = "done" /\ flag_dwarf_cu = ".") =>
    \A d \in GivenDies \ MalformedDies :
      Decoded(AttrOf(d.attrs, "DW_AT_low_pc")) # -1 =>
        /\ EntriesOf(ranged_items, origin, d.off) = Contribution(d)
        /\ \A i \in 1..Len(out) :
             Boundary(Contribution(d), AddressOf(asmlines[i]))
               => Len(out[i]) > Len(asmlines[i])

(***************************************************************************)
(* Properties of normalize-dwarf-objdump.py (SpecFilt).                    *)
(***************************************************************************)

\* the offset in the DIE start lines of the generated dumps, "" for the
\* other lines
HeaderOff(line) ==
  CASE line = " <0><b>: Abbrev Number: 1 (DW_TAG_compile_unit)" -> "b"
    [] line = " <0><5b>: Abbrev Number: 1 (DW_TAG_compile_unit)" -> "5b"
    [] line = " <0><9b>: Abbrev Number: 1 (DW_TAG_compile_unit)" -> "9b"
    [] line = " <1><2d>: Abbrev Number: 2 (DW_TAG_subprogram)" -> "2d"
    [] line = " <1><6d>: Abbrev Number: 2 (DW_TAG_subprogram)" -> "6d"
    [] line = " <2><40>: Abbrev Number: 3 (DW_TAG_inlined_subroutine)" -> "40"
    [] line = " <2><4a>: Abbrev Number: 0" -> "4a"
    [] line = " <1><7a>: Abbrev Number: 0" -> "7a"
    [] OTHER -> ""

\* the DIE start lines of the input, and those of compile units
Headers == {h \in 1..Len(inf) : HeaderOff(inf[h]) # ""}

UnitHeaders == {h \in Headers : HeaderOff(inf[h]) \in {"b", "5b", "9b"}}

\* the name a DW_AT_name line of the generated dumps gives, "" for the others
NameAttr(line) ==
  CASE line = "    <c>   DW_AT_name        : a.c" -> "a.c"
    [] line = "    <5c>   DW_AT_name        : b.c" -> "b.c"
    [] line = "    <2e>   DW_AT_name        : main" -> "main"
    [] line = "    <6e>   DW_AT_name        : foo" -> "foo"
    [] OTHER -> ""

\* the offset a DW_AT_abstract_origin line of the generated dumps refers to
OriginRef(line) ==
  IF line = "    <41>   DW_AT_abstract_origin: <0x2d>" THEN "2d" ELSE ""

\* the start line of the DIE that line q of the input belongs to, 0 before
\* the first DIE
DieOf(q) ==
  IF \E h \in Headers : h <= q
  THEN CHOOSE h \in Headers : h <= q /\ \A g \in Headers : g <= q => g <= h
  ELSE 0

\* the DW_AT_name of the DIE that starts at line h, "" when it has none
NameOfDie(h) ==
  IF \E q \in 1..Len(inf) : DieOf(q) = h /\ NameAttr(inf[q]) # ""
  THEN NameAttr(inf[CHOOSE q \in 1..Len(inf) : DieOf(q) = h /\ NameAttr(inf[q]) # ""])
  ELSE ""

\* the DIE starts that were passed to emit_die
Emitted == {emitted[k] : k \in 1..Len(emitted)}

\* the named DIEs read before line q whose offset line q refers to
OriginsOf(q) ==
  {h \in Headers : /\ h < DieOf(q)
                   /\ HeaderOff(inf[h]) = OriginRef(inf[q])
                   /\ NameOfDie(h) # ""}

\* the DW_AT_abstract_origin lines of emitted DIEs that refer to a named DIE
\* read before
ResolvedOrigins ==
  {q \in 1..Len(inf) : /\ OriginRef(inf[q]) # ""
                       /\ DieOf(q) \in Emitted
                       /\ OriginsOf(q) # {}}

\* whether text stands somewhere in line
Holds(line, text) == \E i \in 1..Len(line) : LitAt(line, i, text)

EndsWith(line, text) == LitAt(line, Len(line) - Len(text) + 1, text)

\* C18: when an emitted DIE has a DW_AT_abstract_origin attribute whose
\* <0x..> reference designates a DIE read before that has a DW_AT_name, the
\* attribute line is written with the addend "// <that name>"; after -A no
\* addend is ever written.
C18_OriginAnnotated ==
  fpc = "done" =>
    /\ flag_annotate_abstract =>
         \A q \in ResolvedOrigins : \E h \in OriginsOf(q) : \E k \in 1..Len(outf) :
           /\ Holds(outf[k], "DW_AT_abstract_origin")
           /\ EndsWith(outf[k], "// " \o NameOfDie(h))
    /\ ~flag_annotate_abstract => \A k \in 1..Len(outf) : ~Holds(outf[k], "// ")

\* the DIE that starts at line p lies in a compile unit whose DW_AT_name is
\* one of the names given with -u
InSelectedUnit(p) ==
  \E u \in UnitHeaders :
    /\ u <= p
    /\ \A v \in UnitHeaders : v <= p => v <= u
    /\ NameOfDie(u) \in flag_compunits

\* C19: with names given with -u, every DIE written to the output, null DIEs
\* included, lies inside a compile unit whose DW_AT_name is one of these
\* names, whatever the sequence of DIEs (DIEs before the first compile unit
\* DIE and compile unit DIEs without DW_AT_name included).
C19_OnlySelectedUnits ==
  (fpc = "done" /\ flag_compunits # {}) => \A p \in Emitted : InSelectedUnit(p)

(***************************************************************************)
(* Properties of dump-compunit-dwarf.py (SpecDump).                        *)
(***************************************************************************)

\* the offset an argument of -x in 0x<hex> form stands for, -1 for the others
OffsetOf(arg) ==
  CASE arg = "0x0" -> 0 [] arg = "0x1" -> 1 [] arg = "0xb" -> 11
    [] arg = "0x4e" -> 78 [] arg = "0x4f" -> 79 [] arg = "0x5a" -> 90
    [] arg = "0x9a" -> 154 [] arg = "0xff" -> 255 [] arg = "0x200" -> 512
    [] OTHER -> -1

\* the offsets of the 'Compilation Unit @ offset' lines of the generated dumps
UnitAt == <<0, 79, 154, 229, 304>>

\* the offsets of the units of the dump of the run
UnitOffsets == {UnitAt[k] : k \in 1..((Len(dc_lines) - 1) \div 3)}

\* the greatest unit offset that is not above o
UnitContaining(o) ==
  CHOOSE a \in UnitOffsets : a <= o /\ \A b \in UnitOffsets : b <= o => b <= a

\* the run is over its selection: at or after the command of step 2, or
\* ended early
Selected == dc_pc \in {"dump", "done", "exit"}

\* C20: for every offset O given with -x in 0x<hex> form (and -n not given),
\* the unit chosen for the dump is the one with the greatest 'Compilation
\* Unit @ offset' value that is <= O; when O is greater than every unit
\* offset this is the last unit, and a warning is written.
C20_UnitContainingOffset ==
  (/\ Selected
   /\ OffsetOf(dc_argv.x) # -1
   /\ dc_argv.n = ""
   /\ UnitOffsets # {})
    => /\ dc_pc \in {"dump", "done"}
       /\ dc_cmd = "objdump --dwarf=info --dwarf-start="
                   \o ToDec(UnitContaining(OffsetOf(dc_argv.x))) \o " a.out"
       /\ (\A a \in UnitOffsets : a < OffsetOf(dc_argv.x)) =>
            /\ UnitContaining(OffsetOf(dc_argv.x)) = UnitAt[Cardinality(UnitOffsets)]
            /\ \E k \in 1..Len(dc_err) : LitAt(dc_err[k], 1, "warning: ")

\* the unit a line of the generated dumps belongs to, by the offset it
\* carries: 0 for a line of no unit
UnitOfLine(line) ==
  CASE Holds(line, "offset 0x0:") \/ Holds(line, "Offset: 0x0")
       \/ Holds(line, "<b>") \/ Holds(line, "<2d>") -> 1
    [] Holds(line, "0x4f") \/ Holds(line, "<5a>") \/ Holds(line, "<7c>") -> 2
    [] Holds(line, "0x9a") \/ Holds(line, "<a5>") \/ Holds(line, "<c7>") -> 3
    [] Holds(line, "0xe5") \/ Holds(line, "<f0>") \/ Holds(line, "<112>") -> 4
    [] Holds(line, "0x130") \/ Holds(line, "<13b>") \/ Holds(line, "<15d>") -> 5
    [] OTHER -> 0

\* the unit the dump of step 2 was started at
SelectedUnit == CHOOSE k \in 1..Len(UnitAt) : UnitAt[k] = dc_selectoff

\* the lines of seq that belong to a unit in S
RECURSIVE LinesOf(_, _)
LinesOf(seq, S) ==
  IF seq = <<>> THEN <<>>
  ELSE (IF UnitOfLine(Head(seq)) \in S THEN <<Head(seq)>> ELSE <<>>)
       \o LinesOf(Tail(seq), S)

\* the lines the pipe of step 2 delivers
Pipe == DwarfStart(dc_full, dc_selectoff, dc_quiet)

\* C21: when step 2 is over, the lines of units written to stdout are exactly
\* the lines of the selected unit in the stream of the pipe, in their order:
\* no header line and no DIE line of another unit is written.
C21_SingleUnitDumped ==
  dc_pc = "done" =>
    LinesOf(dc_out, 1..Len(UnitAt)) = LinesOf(Pipe, {SelectedUnit})

\* the part of C21 that holds: every line of the selected unit is written, in
\* order, and no DIE line of another unit is
C21_DiesOfOneUnit ==
  dc_pc = "done" =>
    /\ LinesOf(dc_out, {SelectedUnit}) = LinesOf(Pipe, {SelectedUnit})
    /\ \A i \in 1..Len(dc_out) :
         Holds(dc_out[i], "DW_") => UnitOfLine(dc_out[i]) = SelectedUnit

\* a run whose dump stopped at the DIE of a following unit
C21_Reached ==
  /\ dc_pc = "done"
  /\ dc_ncomps = 2
  /\ Len(dc_out) > 0

(***************************************************************************)
(* Properties of script_utils.docmdwithtimeout (SpecTimeout).              *)
(***************************************************************************)

\* the call is over: it returned or an exception left it
CallOver == to_pc \in {"returned", "raised"}

\* C22: every call returns to its caller, with the exit status of the
\* command or with -1: TimeoutError never leaves the call; -1 is returned only
\* when the alarm went off, and the status of the command when it did not.
C22_StatusOrMinusOne ==
  CallOver =>
    /\ to_pc = "returned"
    /\ to_result \in {to_cmd.rc, -1}
    /\ to_result = -1 => to_fired
    /\ ~to_fired => to_result = to_cmd.rc

\* the part of C22 that holds: a call that returns, returns the status of the
\* command or -1, and -1 exactly when the handler ran while docmdnf waited
C22_ReturnedValue ==
  to_pc = "returned" =>
    /\ to_result \in {to_cmd.rc, -1}
    /\ (to_result = -1) = to_fired

\* a call that the alarm ended with -1 while the command was running
C22_Reached ==
  /\ to_pc = "returned"
  /\ to_fired
  /\ to_result = -1
  /\ to_cmd.secs > timeout_duration

(***************************************************************************)
(* Properties of script_utils.get_git_status (SpecGitStatus).              *)
(***************************************************************************)

\* C23: a call that has processed all lines of the output returns the
\* 5-tuple (branch, modifications, untracked, renames, rev_renames), for any
\* number of status lines after the branch line.
C23_FiveTupleReturned ==
  gs_pc = "returned" =>
    gs_ret = <<gs_branch, gs_modifications, gs_untracked, gs_renames,
               gs_rev_renames>>

\* a call over a branch line and two status lines that ends with all lines
\* processed and the tables filled
C23_Reached ==
  /\ gs_pc = "returned"
  /\ Len(gs_lines) = 3
  /\ gs_modifications # <<>>
  /\ gs_renames # <<>>

(***************************************************************************)
(* Properties of StringTable (SpecStringTable).                            *)
(***************************************************************************)

\* the strings with a mapping before the last call, and their IDs
MappedBefore(s) == \E i \in 1..Len(st_before.dict) : st_before.dict[i].key = s

IdBefore(s) ==
  LET i == CHOOSE j \in 1..Len(st_before.dict) : st_before.dict[j].key = s
  IN st_before.dict[i].val

\* C24: query(s) returns the ID of s when s has a mapping (the empty string
\* of the constructor included) and -1 exactly when it has none; lookup(s)
\* on a mapped s returns its ID and adds no entry.
C24_QueryAndLookup ==
  /\ st_call.op = "query" =>
       st_call.ret = IF MappedBefore(st_call.s) THEN IdBefore(st_call.s) ELSE -1
  /\ (st_call.op = "lookup" /\ MappedBefore(st_call.s)) =>
       /\ st_call.ret = IdBefore(st_call.s)
       /\ stringtab = st_before.tab

\* the part of C24 that holds: the same for strings other than the one
\* with ID 0
C24_NonZeroIds ==
  (MappedBefore(st_call.s) => IdBefore(st_call.s) # 0) =>
    /\ st_call.op = "query" =>
         st_call.ret = IF MappedBefore(st_call.s) THEN IdBefore(st_call.s) ELSE -1
    /\ (st_call.op = "lookup" /\ MappedBefore(st_call.s)) =>
         /\ st_call.ret = IdBefore(st_call.s)
         /\ stringtab = st_before.tab

\* a lookup of a mapped string after other lookups
C24_Reached ==
  /\ st_call.op = "lookup"
  /\ MappedBefore(st_call.s)
  /\ Len(st_before.tab) > 2

(***************************************************************************)
(* Properties of the DIE store over a whole run of dodwarf (SpecNames).    *)
(***************************************************************************)

\* the steps of the build passes, and the steps that resolve and collect
BuildSteps == {"read1", "findcu", "read2"}

ResolveSteps == {"collect", "ranges", "post"}

\* the lines of the second dump that belong to a DIE: the start lines of
\* the DIEs with a tag, and the attribute lines
DieLines == {k \in 1..Len(lines2) : Holds(lines2[k], "(DW_TAG_")
                                    \/ Holds(lines2[k], "DW_AT_")}

\* the number of lines in the entries of a store
RECURSIVE StoredLines(_)
StoredLines(store) ==
  IF Len(store) = 0 THEN 0
  ELSE Len(Head(store).val) + StoredLines(Tail(store))

\* C25: while the dumps are read no interval, range reference or range list
\* is collected; the resolving and collecting steps run on a store that holds
\* every DIE line of the dump; and from the first of them on no step adds,
\* removes or changes an entry of the store.
C25_TwoPhase ==
  [][/\ pc \in BuildSteps =>
          /\ results' = <<>> /\ rlrefs' = <<>> /\ refranges' = <<>>
          /\ ranged_items' = <<>>
     /\ pc \in ResolveSteps => StoredLines(dies) = Cardinality(DieLines)
     /\ pc \in ResolveSteps \cup {"annot", "done"} => dies' = dies]_vars

\* a run that looked up an abstract origin that is not in the store, and
\* went through the collection of a range list, with a store of four DIEs
C25_Witness ==
  /\ pc = "done"
  /\ Len(dies) = 4
  /\ \E i \in 1..Len(results) : LitAt(results[i][1], 1, "unknown@")
  /\ Len(results) > 2
  /\ \E d \in GivenDies :
       /\ AttrOf(d.attrs, "DW_AT_name") = ""
       /\ AttrOf(d.attrs, "DW_AT_abstract_origin") = "<0x50>"

(***************************************************************************)
(* Termination of the name resolution (SpecNamesLive).                     *)
(***************************************************************************)

\* d has no name and is on a cycle of abstract origins without names: it
\* references itself, or a DIE that references it
OnCycle(d) ==
  /\ ~Named(d)
  /\ \E g \in Referenced(d) : ~Named(g) /\ (g = d \/ d \in Referenced(g))

\* the name recorded for the DIE of entry i is its placeholder
Placeholder(i) ==
  results[i][1] = "unknown@" \o DieAt(origin[i]).tag \o "@"
                  \o DieAt(origin[i]).offtext

\* C26: every run comes to its end, whatever the abstract origins of the
\* store reference; no name resolution reads more DIEs from the store than
\* the store has, and a DIE on a cycle of unnamed DIEs (one that references
\* itself, or A -> B -> A) gets the placeholder name.
C26_ResolverTerminates ==
  /\ [](\A i \in 1..Len(lookups) : lookups[i] <= Len(dies))
  /\ [](\A i \in 1..Len(results) : OnCycle(DieAt(origin[i])) => Placeholder(i))
  /\ <>(pc \in {"done", "exit"})

\* the run is over with the placeholder for a DIE that references itself and
\* for two DIEs that reference each other
C26_Witness ==
  /\ pc = "done"
  /\ \E i \in 1..Len(results) :
       /\ ~Named(DieAt(origin[i]))
       /\ DieAt(origin[i]) \in Referenced(DieAt(origin[i]))
       /\ Placeholder(i)
  /\ \E i \in 1..Len(results) :
       \E g \in Referenced(DieAt(origin[i])) :
         /\ g # DieAt(origin[i])
         /\ OnCycle(DieAt(origin[i]))
         /\ DieAt(origin[i]) \in Referenced(g)
         /\ Placeholder(i)

(***************************************************************************)
(* The end of a range-list block (SpecRanges).                             *)
(***************************************************************************)

\* the lines of the range dump the loop of postprocess_rangerefs has read
RangeLinesRead ==
  IF pc = "ranges" THEN idx - 1
  ELSE IF pc \in {"post", "annot", "done"} THEN Len(rnglines)
  ELSE 0

\* the last base-address line among the first k lines of the dump; 0: none
LastBaseLine(k) ==
  LET S == {j \in 1..k : Match(basere, rnglines[j]).ok}
  IN IF S = {} THEN 0 ELSE CHOOSE j \in S : \A i \in S : i <= j

\* the singleton lines among the lines a + 1 .. b whose offset is in rlrefs
KeptSingletons(a, b) ==
  {j \in (a + 1)..b :
     LET m1 == Match(singre, rnglines[j])
     IN m1.ok /\ DictHas(rlrefs, PyInt16(Group(rnglines[j], m1, 1)))}

\* C27: a base-address line read while a block is open ends that block: the
\* pair sequence being collected holds no pair of a singleton line from
\* before the last base-address line read, so the pairs that follow the
\* base-address line are not appended to the sequence that was open before it
C27_BaseAddressEndsBlock ==
  Len(crange) <= Cardinality(KeptSingletons(LastBaseLine(RangeLinesRead), RangeLinesRead))

\* the list stored under 0x40 holds the pair from before the base-address
\* line and the pair from after it
C27_Reached ==
  /\ pc = "done"
  /\ rnglines = RangeDumpBaseInside
  /\ DictHas(refranges, 64)
  /\ DictGet(refranges, 64) = <<<<4096, 4112>>, <<4128, 4144>>>>

(***************************************************************************)
(* The line buffer of normalize-dwarf-objdump.py (SpecFilt).               *)
(***************************************************************************)

\* the last call of read_line
LastRead == readlog[Len(readlog)]

\* the calls of read_line among the first k that read a line of the input
FreshReads(k) == {i \in 1..k : ~readlog[i].buffered /\ ~readlog[i].eof}

\* C28: unread_line is never called while a line is buffered, so the
\* internal error "multiple line unread" does not happen; a buffered line is
\* the line the last read_line returned, the next read_line returns it and
\* empties the buffer without reading the input, and no call returns a
\* buffered line twice: the calls that read the input go through it line by
\* line, and a call that returns a buffered line repeats the call before it
C28_OneLinePushback ==
  /\ [](ffailure # "multiple line unread")
  /\ [](linebuffered =>
          /\ Len(readlog) > 0
          /\ ~LastRead.eof
          /\ linebuf = inf[LastRead.at])
  /\ [][linebuffered /\ readlog' # readlog =>
          /\ readlog' = Append(readlog, [at |-> LastRead.at, eof |-> FALSE,
                                         buffered |-> TRUE])
          /\ infpos' = infpos
          /\ ~linebuffered']_vars
  /\ [](\A i \in 1..Len(readlog) :
          IF readlog[i].buffered
          THEN /\ i > 1
               /\ i - 1 \in FreshReads(i)
               /\ readlog[i].at = readlog[i - 1].at
          ELSE readlog[i].eof \/ readlog[i].at = Cardinality(FreshReads(i)))

\* a finished run in which read_line returned a buffered line twice, one of
\* them echoed and one the first line of a DIE
C28_Witness ==
  /\ fpc = "done"
  /\ \E i, j \in 1..Len(readlog) :
       /\ i < j
       /\ readlog[i].buffered
       /\ readlog[j].buffered
       /\ Match(bdiere_norm, inf[readlog[i].at]).ok
       /\ ~Match(bdiere_norm, inf[readlog[j].at]).ok
       /\ \E k \in 1..Len(outsrc) : outsrc[k] = [at |-> readlog[j].at, echo |-> TRUE]

(***************************************************************************)
(* The lines of the input in the loop of perform_filt (SpecFilt).          *)
(***************************************************************************)

\* line k of the input is the first line of a DIE or an attribute line
\* directly inside a DIE
RECURSIVE InsideDie(_)
InsideDie(k) ==
  IF k = 0 THEN FALSE
  ELSE \/ Match(bdiere_norm, inf[k]).ok
       \/ AttrMatch(inf[k]).ok /\ InsideDie(k - 1)

\* the calls of read_line that read line k of the input
ReadsOf(k) == {i \in FreshReads(Len(readlog)) : readlog[i].at = k}

\* the lines of the output that are line k of the input echoed
EchoesOf(k) == {j \in 1..Len(outsrc) : outsrc[j] = [at |-> k, echo |-> TRUE]}

\* every line of the input was read once; every line outside the DIEs is
\* in the output once, as it is in the input; and the output is in the
\* order of the input
Conserved ==
  /\ \A k \in 1..Len(inf) : Cardinality(ReadsOf(k)) = 1
  /\ \A k \in 1..Len(inf) :
       IF InsideDie(k) THEN EchoesOf(k) = {}
       ELSE /\ Cardinality(EchoesOf(k)) = 1
            /\ \A j \in EchoesOf(k) : outf[j] = inf[k]
  /\ \A a, b \in 1..Len(outsrc) : a < b => outsrc[a].at < outsrc[b].at

\* C29: when perform_filt is over, every line of the input has been
\* consumed exactly once and every line that is not part of a DIE has been
\* echoed verbatim exactly once, in its place among the emitted DIEs, with
\* the output of DIEs filtered or not
C29_LineConservation == fpc \in {"done", "exit"} => Conserved

\* the runs in which perform_filt leaves its loop at the end of the input
\* conserve the lines
C29_ConservedAtEnd == fpc = "done" => Conserved

\* a run that an exception ended with a line of the input in the buffer
C29_Reached ==
  /\ fpc = "exit"
  /\ ffailure = "ValueError"
  /\ linebuffered
  /\ inf = FiltBadOffset
  /\ ~InsideDie(Len(inf))
  /\ EchoesOf(Len(inf)) = {}

====
